---- MODULE Spec2Model ----
(***************************************************************************)
(* Email preprocessing layer: canonicalization engine, guarded pattern     *)
(* matcher, PII detector and the fallback orchestrator.                    *)
(*                                                                         *)
(* A text is a sequence of characters; a character is a one-character      *)
(* string ("NBSP" stands for U+00A0).  Offsets are 0-based, spans are      *)
(* half-open [start, end), as in Python.                                   *)
(***************************************************************************)
EXTENDS Integers, Sequences, FiniteSets, TLC

(***************************************************************************)
(* Bounds of the model.                                                    *)
(***************************************************************************)
MaxFrags == 2
MaxCanonFrags == 3
MaxTimeouts == 1
MaxFaults == 1
MaxCands == 3
MaxPiiFrags == 2
MaxAttempts == 3
MaxBatch == 2
MaxThreads == 2
MaxCalls == 2

(***************************************************************************)
(* Characters and character classes (Python re, str patterns).             *)
(***************************************************************************)
NBSP == "NBSP"
WS == {" ", "\t", "\n", "\r", "\f"}
LowerLetters == {"a","b","c","d","e","f","g","h","i","j","k","l","m",
                 "n","o","p","q","r","s","t","u","v","w","x","y","z"}
UpperLetters == {"A","B","C","D","E","F","G","H","I","J","K","L","M",
                 "N","O","P","Q","R","S","T","U","V","W","X","Y","Z"}
Digits == {"0","1","2","3","4","5","6","7","8","9"}
WordChars == LowerLetters \cup UpperLetters \cup Digits \cup {"_"}

CasePairs ==
  {<<"a","A">>, <<"b","B">>, <<"c","C">>, <<"d","D">>, <<"e","E">>,
   <<"f","F">>, <<"g","G">>, <<"h","H">>, <<"i","I">>, <<"j","J">>,
   <<"k","K">>, <<"l","L">>, <<"m","M">>, <<"n","N">>, <<"o","O">>,
   <<"p","P">>, <<"q","Q">>, <<"r","R">>, <<"s","S">>, <<"t","T">>,
   <<"u","U">>, <<"v","V">>, <<"w","W">>, <<"x","X">>, <<"y","Y">>,
   <<"z","Z">>}

\* Both cases of a character (re.IGNORECASE).
BothCases(c) ==
  {c} \cup {pr[2] : pr \in {q \in CasePairs : q[1] = c}}
      \cup {pr[1] : pr \in {q \in CasePairs : q[2] = c}}

\* str.lower() on one character.
LowerChar(c) ==
  IF c \in UpperLetters
  THEN (CHOOSE pr \in CasePairs : pr[2] = c)[1]
  ELSE c

(***************************************************************************)
(* Regular expressions.  A pattern is a sequence of items; an item is a    *)
(* zero-width assertion ("bol" = ^, "eol" = $ under re.MULTILINE, "wb" =   *)
(* \b) or a greedy quantified character class.                             *)
(***************************************************************************)
Inf == 9999

Cls(s, lo, hi) ==
  [kind |-> "cls", cls |-> s, neg |-> FALSE, min |-> lo, max |-> hi, alts |-> << >>]
NotCls(s, lo, hi) ==
  [kind |-> "cls", cls |-> s, neg |-> TRUE, min |-> lo, max |-> hi, alts |-> << >>]
Bol == [kind |-> "bol", cls |-> {}, neg |-> FALSE, min |-> 0, max |-> 0, alts |-> << >>]
Eol == [kind |-> "eol", cls |-> {}, neg |-> FALSE, min |-> 0, max |-> 0, alts |-> << >>]
Wb == [kind |-> "wb", cls |-> {}, neg |-> FALSE, min |-> 0, max |-> 0, alts |-> << >>]
\* (?:a1|a2|...): the alternatives are tried in order.
Alt(as) == [kind |-> "alt", cls |-> {}, neg |-> FALSE, min |-> 0, max |-> 0, alts |-> as]
\* (?:a)?
Opt(a) == Alt(<<a, << >>>>)
\* "." without re.DOTALL, and with it.
Dot(lo, hi) == NotCls({"\n"}, lo, hi)
DotAll(lo, hi) == NotCls({}, lo, hi)
\* A literal string, case-sensitive and case-insensitive.
Lit(s) == [i \in 1..Len(s) |-> Cls({s[i]}, 1, 1)]
LitI(s) == [i \in 1..Len(s) |-> Cls(BothCases(s[i]), 1, 1)]

InCls(it, c) == (c \in it.cls) # it.neg

RECURSIVE MaxRun(_, _, _, _)
\* Length of the longest run of class characters at offset pos, at most it.max.
MaxRun(it, text, pos, n) ==
  IF n < it.max /\ pos + n < Len(text) /\ InCls(it, text[pos + n + 1])
  THEN MaxRun(it, text, pos, n + 1)
  ELSE n

IsWordAt(text, pos) == pos >= 0 /\ pos < Len(text) /\ text[pos + 1] \in WordChars

RECURSIVE MatchItems(_, _, _, _)
RECURSIVE TryCount(_, _, _, _, _)
RECURSIVE TryAlts(_, _, _, _, _)
\* End offset of the first match (backtracking order, greedy quantifiers)
\* of items k.. of pattern p at offset pos, or -1.
MatchItems(p, k, text, pos) ==
  IF k > Len(p) THEN pos
  ELSE LET it == p[k] IN
    CASE it.kind = "bol" ->
           IF pos = 0 \/ text[pos] = "\n"
           THEN MatchItems(p, k + 1, text, pos) ELSE -1
      [] it.kind = "eol" ->
           IF pos = Len(text) \/ text[pos + 1] = "\n"
           THEN MatchItems(p, k + 1, text, pos) ELSE -1
      [] it.kind = "wb" ->
           IF IsWordAt(text, pos - 1) # IsWordAt(text, pos)
           THEN MatchItems(p, k + 1, text, pos) ELSE -1
      [] it.kind = "alt" -> TryAlts(p, k, text, pos, 1)
      [] OTHER -> TryCount(p, k, text, pos, MaxRun(it, text, pos, 0))

TryCount(p, k, text, pos, c) ==
  IF c < p[k].min THEN -1
  ELSE LET r == MatchItems(p, k + 1, text, pos + c) IN
       IF r # -1 THEN r ELSE TryCount(p, k, text, pos, c - 1)

TryAlts(p, k, text, pos, j) ==
  IF j > Len(p[k].alts) THEN -1
  ELSE LET r == MatchItems(p[k].alts[j] \o SubSeq(p, k + 1, Len(p)), 1, text, pos) IN
       IF r # -1 THEN r ELSE TryAlts(p, k, text, pos, j + 1)

RECURSIVE FindIter(_, _, _)
\* re.Pattern.finditer: the spans of the non-overlapping matches, scanning
\* from offset start.  (No pattern of the tables matches the empty string.)
FindIter(p, text, start) ==
  IF start > Len(text) THEN << >>
  ELSE LET e == MatchItems(p, 1, text, start) IN
       IF e = -1 THEN FindIter(p, text, start + 1)
       ELSE IF e = start THEN <<<<start, e>>>> \o FindIter(p, text, start + 1)
       ELSE <<<<start, e>>>> \o FindIter(p, text, e)

RECURSIVE SubSpans(_, _, _, _)
\* The text with every span of ms (ascending) replaced by repl.
SubSpans(text, ms, repl, from) ==
  IF ms = << >> THEN SubSeq(text, from + 1, Len(text))
  ELSE SubSeq(text, from + 1, ms[1][1]) \o repl
         \o SubSpans(text, Tail(ms), repl, ms[1][2])

\* re.Pattern.sub(repl, text)
Sub(p, text, repl) == SubSpans(text, FindIter(p, text, 0), repl, 0)

(***************************************************************************)
(* canonicalization.py: the removal patterns.                              *)
(***************************************************************************)
WsStar == Cls(WS, 0, Inf)

QUOTE_PATTERNS ==
  << [re |-> <<Bol, WsStar, Cls({">"}, 1, Inf), Dot(0, Inf), Eol>>,
      type |-> "quote_standard", confidence |-> 100],
     [re |-> LitI(<<"I","l"," ","g","i","o","r","n","o">>) \o <<DotAll(1, 200)>>
             \o LitI(<<"h","a"," ","s","c","r","i","t","t","o",":">>),
      type |-> "reply_header_it", confidence |-> 95],
     [re |-> LitI(<<"O","n">>) \o <<DotAll(1, 200)>>
             \o LitI(<<"w","r","o","t","e",":">>),
      type |-> "reply_header_en", confidence |-> 95],
     [re |-> LitI(<<"D","a",":">>) \o <<DotAll(1, 300)>>
             \o LitI(<<"O","g","g","e","t","t","o",":">>),
      type |-> "reply_header_outlook", confidence |-> 95],
     [re |-> <<Bol, WsStar, Cls({"-"}, 1, 1), Cls({"-"}, 1, 1), WsStar, Eol>>,
      type |-> "signature_separator", confidence |-> 100],
     [re |-> <<Bol, WsStar, Cls({"_"}, 5, 50), WsStar, Eol>>,
      type |-> "signature_underline", confidence |-> 90],
     [re |-> LitI(<<"Q","u","e","s","t","o"," ","m","e","s","s","a","g","g","i","o">>)
             \o <<DotAll(1, 500)>>
             \o LitI(<<"c","o","n","f","i","d","e","n","z","i","a","l","e">>),
      type |-> "disclaimer_confidential", confidence |-> 85],
     [re |-> LitI(<<"I","n","f","o","r","m","a","t","i","v","a"," ",
                    "p","r","i","v","a","c","y">>)
             \o <<DotAll(1, 500)>> \o LitI(<<"G","D","P","R">>),
      type |-> "disclaimer_privacy", confidence |-> 85],
     [re |-> <<Cls(BothCases("P"), 1, 1), Cls({"."}, 0, 1), Cls(WS, 0, 1)>>
             \o LitI(<<"R","i","s","p","e","t","t","a"," ","l">>)
             \o <<Cls({"'"}, 1, 1)>>
             \o LitI(<<"a","m","b","i","e","n","t","e">>) \o <<DotAll(1, 200)>>,
      type |-> "disclaimer_environment", confidence |-> 80],
     [re |-> LitI(<<"C","o","r","d","i","a","l","i"," ","s","a","l","u","t","i">>)
             \o <<Cls(WS \cup {","}, 0, 10)>>,
      type |-> "closing_formal", confidence |-> 90],
     [re |-> LitI(<<"D","i","s","t","i","n","t","i"," ","s","a","l","u","t","i">>)
             \o <<Cls(WS \cup {","}, 0, 10)>>,
      type |-> "closing_formal", confidence |-> 90],
     [re |-> <<Bol, WsStar, Cls({"-"}, 3, 50), WsStar>>
             \o Lit(<<"F","o","r","w","a","r","d","e","d"," ",
                      "m","e","s","s","a","g","e">>)
             \o <<WsStar, Cls({"-"}, 3, 50)>>,
      type |-> "forward_marker", confidence |-> 100],
     [re |-> <<Bol, WsStar, Cls({"-"}, 3, 50), WsStar>>
             \o Lit(<<"M","e","s","s","a","g","g","i","o"," ",
                      "i","n","o","l","t","r","a","t","o">>)
             \o <<WsStar, Cls({"-"}, 3, 50)>>,
      type |-> "forward_marker_it", confidence |-> 100] >>

(***************************************************************************)
(* models.py: audit records.  Confidence is in percent (1.0 = 100).        *)
(***************************************************************************)
PreviewLen == 100

Take(s, n) == SubSeq(s, 1, IF Len(s) < n THEN Len(s) ELSE n)

\* A RemovedSection that keeps the whole preview.
RemovedSectionUntruncated(type, span_start, span_end, content_preview, confidence) ==
  IF ~(0 <= confidence /\ confidence <= 100) THEN [error |-> "ValueError"]
  ELSE IF span_start < 0 \/ span_end < span_start THEN [error |-> "ValueError"]
  ELSE [type |-> type, span_start |-> span_start, span_end |-> span_end,
        content_preview |-> content_preview, confidence |-> confidence]

\* RemovedSection(...) with __post_init__: "ValueError" when validation fails.
RemovedSection(type, span_start, span_end, content_preview, confidence) ==
  IF ~(0 <= confidence /\ confidence <= 100) THEN [error |-> "ValueError"]
  ELSE IF span_start < 0 \/ span_end < span_start THEN [error |-> "ValueError"]
  ELSE [type |-> type, span_start |-> span_start, span_end |-> span_end,
        content_preview |-> Take(content_preview, PreviewLen),
        confidence |-> confidence]

(***************************************************************************)
(* canonicalization.py                                                     *)
(***************************************************************************)
\* Characters of Unicode category Zs and the characters str.strip() removes.
Zs == {" ", NBSP}
StripWS == WS \cup {NBSP}

RECURSIVE NormalizeLineEndings(_)
\* text.replace("\r\n", "\n").replace("\r", "\n")
NormalizeLineEndings(text) ==
  IF text = << >> THEN << >>
  ELSE IF text[1] = "\r"
       THEN IF Len(text) >= 2 /\ text[2] = "\n"
            THEN <<"\n">> \o NormalizeLineEndings(SubSeq(text, 3, Len(text)))
            ELSE <<"\n">> \o NormalizeLineEndings(Tail(text))
       ELSE <<text[1]>> \o NormalizeLineEndings(Tail(text))

RECURSIVE NormalizeNFC(_)
\* unicodedata.normalize("NFC", text): a base letter followed by a combining
\* mark composes into the precomposed letter ("e" + U+0301 gives U+00E9).
NormalizeNFC(text) ==
  IF text = << >> THEN << >>
  ELSE IF Len(text) >= 2 /\ text[1] = "e" /\ text[2] = "U+0301"
       THEN <<"U+00E9">> \o NormalizeNFC(SubSeq(text, 3, Len(text)))
       ELSE <<text[1]>> \o NormalizeNFC(Tail(text))

\* _normalize_unicode_whitespace
NormalizeUnicodeWhitespace(text) ==
  [i \in 1..Len(text) |-> IF text[i] \in Zs THEN " " ELSE text[i]]

RECURSIVE RStripLines(_, _)
\* "\n".join(line.rstrip() for line in text.split("\n")); atEnd says that
\* only whitespace follows on the line.
RStripLines(text, atEnd) ==
  IF text = << >> THEN << >>
  ELSE LET c == text[Len(text)]
           front == SubSeq(text, 1, Len(text) - 1) IN
       IF c = "\n" THEN RStripLines(front, TRUE) \o <<c>>
       ELSE IF atEnd /\ c \in StripWS THEN RStripLines(front, TRUE)
       ELSE RStripLines(front, FALSE) \o <<c>>

RECURSIVE CollapseRuns(_, _, _, _)
\* re.sub(c{n+1,}, c * n, text): a run of more than n characters c keeps n.
CollapseRuns(text, c, n, run) ==
  IF text = << >> THEN << >>
  ELSE IF text[1] = c
       THEN IF run >= n THEN CollapseRuns(Tail(text), c, n, run)
            ELSE <<c>> \o CollapseRuns(Tail(text), c, n, run + 1)
       ELSE <<text[1]>> \o CollapseRuns(Tail(text), c, n, 0)

RECURSIVE LStrip(_)
LStrip(text) ==
  IF text # << >> /\ text[1] \in StripWS THEN LStrip(Tail(text)) ELSE text

RECURSIVE RStrip(_)
RStrip(text) ==
  IF text # << >> /\ text[Len(text)] \in StripWS
  THEN RStrip(SubSeq(text, 1, Len(text) - 1)) ELSE text

\* str.strip()
Strip(text) == RStrip(LStrip(text))

\* A cleanup that does not strip the line ends.
CleanupKeepingLineEnds(text) ==
  Strip(CollapseRuns(CollapseRuns(text, " ", 1, 0), "\n", 2, 0))

\* _cleanup_excessive_whitespace
CleanupExcessiveWhitespace(text) ==
  Strip(CollapseRuns(CollapseRuns(RStripLines(text, TRUE), " ", 1, 0), "\n", 2, 0))

\* str.startswith(tuple of prefixes), for the pattern types.
\* A quote group that is NOT the code's: the reply headers are left out.
QuoteGroupWithoutReplyHeaders == {"quote_standard", "forward_marker", "forward_marker_it"}

QuoteGroup == {"quote_standard", "reply_header_it", "reply_header_en",
               "reply_header_outlook", "forward_marker", "forward_marker_it"}
SignatureGroup == {"signature_separator", "signature_underline",
                   "disclaimer_confidential", "disclaimer_privacy",
                   "disclaimer_environment", "closing_formal"}

\* safe_regex_finditer as a function of the match list and of the number of
\* match checks the loop completes before the watchdog fires: the flag is read
\* once per yielded match, so the call raises iff a match is yielded after
\* the watchdog has fired.
SafeRegexFinditer(p, text, checksBeforeFire) ==
  LET ms == FindIter(p, text, 0) IN
  IF checksBeforeFire < Len(ms)
  THEN [raised |-> "RegexTimeoutError", matches |-> << >>]
  ELSE [raised |-> "", matches |-> ms]

RECURSIVE SectionsOf(_, _, _)
\* The RemovedSection records of the matches of one pattern.
SectionsOf(pat, text, ms) ==
  IF ms = << >> THEN << >>
  ELSE <<RemovedSection(pat.type, ms[1][1], ms[1][2],
                        SubSeq(text, ms[1][1] + 1, ms[1][2]), pat.confidence)>>
       \o SectionsOf(pat, text, Tail(ms))

RECURSIVE ApplyPatternsAbortOnTimeout(_, _, _, _, _, _, _)
\* A pattern loop that is NOT the code's: a RegexTimeoutError ends the loop
\* instead of continuing with the next pattern.
ApplyPatternsAbortOnTimeout(text, removed, timeouts, k, remove_quotes, remove_signatures, budget) ==
  IF k > Len(QUOTE_PATTERNS)
  THEN {[text |-> text, removed |-> removed, timeouts |-> timeouts]}
  ELSE LET pat == QUOTE_PATTERNS[k] IN
    IF (~remove_quotes /\ pat.type \in QuoteGroup)
       \/ (~remove_signatures /\ pat.type \in SignatureGroup)
    THEN ApplyPatternsAbortOnTimeout(text, removed, timeouts, k + 1,
                                     remove_quotes, remove_signatures, budget)
    ELSE ApplyPatternsAbortOnTimeout(Sub(pat.re, text, <<"\n">>),
              removed \o SectionsOf(pat, text, FindIter(pat.re, text, 0)),
              timeouts, k + 1, remove_quotes, remove_signatures, budget)
         \cup (IF budget > 0 /\ FindIter(pat.re, text, 0) # << >>
               THEN {[text |-> text, removed |-> removed,
                      timeouts |-> timeouts \cup {k}]}
               ELSE {})

RECURSIVE ApplyPatterns(_, _, _, _, _, _, _)
\* The pattern loop of canonicalize_text from table index k on.  Whether a
\* watchdog fires depends on the timing of the run, so the loop has a set of
\* outcomes: one for every choice of at most budget patterns whose guarded
\* match raises RegexTimeoutError (only a pattern that yields a match can).
\* timeouts is the set of table indices skipped that way.
ApplyPatterns(text, removed, timeouts, k, remove_quotes, remove_signatures, budget) ==
  IF k > Len(QUOTE_PATTERNS)
  THEN {[text |-> text, removed |-> removed, timeouts |-> timeouts]}
  ELSE LET pat == QUOTE_PATTERNS[k] IN
    IF ~remove_quotes /\ pat.type \in QuoteGroup
    THEN ApplyPatterns(text, removed, timeouts, k + 1,
                       remove_quotes, remove_signatures, budget)
    ELSE IF ~remove_signatures /\ pat.type \in SignatureGroup
    THEN ApplyPatterns(text, removed, timeouts, k + 1,
                       remove_quotes, remove_signatures, budget)
    ELSE LET inTime == SafeRegexFinditer(pat.re, text, Inf)
             tooLate == SafeRegexFinditer(pat.re, text, 0)
             applied == ApplyPatterns(Sub(pat.re, text, <<"\n">>),
                                      removed \o SectionsOf(pat, text, inTime.matches),
                                      timeouts, k + 1,
                                      remove_quotes, remove_signatures, budget)
         IN IF budget > 0 /\ tooLate.raised = "RegexTimeoutError"
            THEN applied \cup
                 ApplyPatterns(text, removed, timeouts \cup {k}, k + 1,
                               remove_quotes, remove_signatures, budget - 1)
            ELSE applied

\* canonicalize_text: the set of its outcomes [text, removed, timeouts] when
\* at most budget patterns time out.
CanonicalizeText(text, remove_quotes, remove_signatures, budget) ==
  LET t3 == NormalizeUnicodeWhitespace(NormalizeNFC(NormalizeLineEndings(text))) IN
  {[text |-> CleanupExcessiveWhitespace(r.text), removed |-> r.removed,
    timeouts |-> r.timeouts] :
     r \in ApplyPatterns(t3, << >>, {}, 1, remove_quotes, remove_signatures, budget)}

\* The outcome of a run in which no watchdog fires.
InTime(outcomes) == CHOOSE o \in outcomes : o.timeouts = {}

\* PIIRedaction(...) with __post_init__.
PIIRedaction(type, original_hash, redacted, span_start, span_end, confidence, detection_method) ==
  IF ~(0 <= confidence /\ confidence <= 100) THEN [error |-> "ValueError"]
  ELSE IF span_start < 0 \/ span_end < span_start THEN [error |-> "ValueError"]
  ELSE IF detection_method \notin {"regex", "ner", "hybrid"} THEN [error |-> "ValueError"]
  ELSE [type |-> type, original_hash |-> original_hash, redacted |-> redacted,
        span_start |-> span_start, span_end |-> span_end,
        confidence |-> confidence, detection_method |-> detection_method]

(***************************************************************************)
(* pii_detection.py                                                        *)
(***************************************************************************)
Letters == LowerLetters \cup UpperLetters
DigitCls(lo, hi) == Cls(Digits, lo, hi)
LetterCls(lo, hi) == Cls(Letters, lo, hi)

\* Compiled with re.VERBOSE | re.IGNORECASE, in dict order.
PII_REGEX_PATTERNS ==
  << [type |-> "EMAIL",
      re |-> <<Wb, Cls(Letters \cup Digits \cup {".", "_", "%", "+", "-"}, 1, Inf),
               Cls({"@"}, 1, 1),
               Cls(Letters \cup Digits \cup {".", "-"}, 1, Inf),
               Cls({"."}, 1, 1), Cls(Letters \cup {"|"}, 2, Inf), Wb>>],
     [type |-> "PHONE_IT",
      re |-> <<Alt(<< <<Cls({"+"}, 1, 1), Cls({"3"}, 1, 1), Cls({"9"}, 1, 1),
                        Cls(WS, 0, 1), DigitCls(2, 3), Cls(WS, 0, 1), DigitCls(6, 7)>>,
                      <<Cls({"0"}, 1, 1), DigitCls(2, 3), Cls(WS, 0, 1),
                        DigitCls(6, 7)>> >>)>>],
     [type |-> "PIVA",
      re |-> <<Wb, Opt(LitI(<<"I", "T">>) \o <<Cls(WS, 0, 1)>>), DigitCls(11, 11), Wb>>],
     [type |-> "CF",
      re |-> <<Wb, LetterCls(6, 6), DigitCls(2, 2), LetterCls(1, 1), DigitCls(2, 2),
               LetterCls(1, 1), DigitCls(3, 3), LetterCls(1, 1), Wb>>],
     [type |-> "IBAN",
      re |-> <<Wb>> \o LitI(<<"I", "T">>)
             \o <<DigitCls(2, 2), LetterCls(1, 1), DigitCls(10, 10),
                  Cls(Digits \cup Letters, 12, 12), Wb>>] >>


\* Compiled with re.IGNORECASE, in dict order.
BUSINESS_WHITELIST_PATTERNS ==
  << [type |-> "INVOICE_NUMBER",
      re |-> <<Wb,
               Alt(<<LitI(<<"f","a","t","t","u","r","a">>),
                     LitI(<<"i","n","v","o","i","c","e">>),
                     LitI(<<"o","r","d","i","n","e">>),
                     LitI(<<"o","r","d","e","r">>),
                     LitI(<<"p","r","a","t","i","c","a">>)>>),
               WsStar,
               Opt(<<Alt(<<LitI(<<"n">>) \o <<Cls({"."}, 0, 1)>>,
                           LitI(<<"n","u","m">>) \o <<Cls({"."}, 0, 1)>>,
                           LitI(<<"n","r">>) \o <<Cls({"."}, 0, 1)>> >>)>>),
               WsStar, DigitCls(1, Inf), Wb>>],
     [type |-> "REFERENCE_NUMBER",
      re |-> <<Wb,
               Alt(<<LitI(<<"r","i","f">>) \o <<Cls({"."}, 0, 1)>>,
                     LitI(<<"r","e","f">>) \o <<Cls({"."}, 0, 1)>>,
                     LitI(<<"p","r","o","t","o","c","o","l","l","o">>),
                     LitI(<<"p","r","o","t">>) \o <<Cls({"."}, 0, 1)>> >>),
               WsStar, DigitCls(1, Inf), Wb>>] >>

\* f"[PII_{pii_type}]"
TypeChars ==
  [t \in {"EMAIL", "PHONE_IT", "PIVA", "CF", "IBAN", "NAME", "ORG"} |->
     CASE t = "EMAIL" -> <<"E","M","A","I","L">>
       [] t = "PHONE_IT" -> <<"P","H","O","N","E","_","I","T">>
       [] t = "PIVA" -> <<"P","I","V","A">>
       [] t = "CF" -> <<"C","F">>
       [] t = "IBAN" -> <<"I","B","A","N">>
       [] t = "NAME" -> <<"N","A","M","E">>
       [] OTHER -> <<"O","R","G">>]
Placeholder(t) == <<"[","P","I","I","_">> \o TypeChars[t] \o <<"]">>

\* PIIDetector._hash_pii: the digest is a function of the string
\* f"{pii_text}{self.salt}"; a digest is represented by that string.
HashPii(pii_text, salt) == [sha256_16 |-> pii_text \o salt]

\* An overlap test that is NOT the code's: only a span lying inside the other
\* one counts.
SpansOverlapInside(span1, span2) == span2[1] <= span1[1] /\ span1[2] <= span2[2]

\* PIIDetector._spans_overlap
SpansOverlap(span1, span2) == ~(span1[2] <= span2[1] \/ span2[2] <= span1[1])

RECURSIVE SpansOfTable(_, _, _)
\* All match spans of the patterns k.. of a table.
SpansOfTable(table, text, k) ==
  IF k > Len(table) THEN << >>
  ELSE FindIter(table[k].re, text, 0) \o SpansOfTable(table, text, k + 1)

SeqToSet(s) == {s[i] : i \in 1..Len(s)}

RECURSIVE RegexRedactionsOf(_, _, _, _, _)
\* The redactions of the matches ms of one PII pattern.
RegexRedactionsOf(pii_type, text, ms, whitelist_spans, salt) ==
  IF ms = << >> THEN << >>
  ELSE LET rest == RegexRedactionsOf(pii_type, text, Tail(ms), whitelist_spans, salt) IN
       IF \E ws \in whitelist_spans : SpansOverlap(ms[1], ws)
       THEN rest
       ELSE <<PIIRedaction(pii_type,
                           HashPii(SubSeq(text, ms[1][1] + 1, ms[1][2]), salt),
                           Placeholder(pii_type), ms[1][1], ms[1][2], 100, "regex")>>
            \o rest

RECURSIVE DetectPiiRegexFrom(_, _, _, _)
DetectPiiRegexFrom(text, k, whitelist_spans, salt) ==
  IF k > Len(PII_REGEX_PATTERNS) THEN << >>
  ELSE RegexRedactionsOf(PII_REGEX_PATTERNS[k].type, text,
                         FindIter(PII_REGEX_PATTERNS[k].re, text, 0),
                         whitelist_spans, salt)
       \o DetectPiiRegexFrom(text, k + 1, whitelist_spans, salt)

\* PIIDetector.detect_pii_regex
DetectPiiRegex(text, salt) ==
  DetectPiiRegexFrom(text, 1,
                     SeqToSet(SpansOfTable(BUSINESS_WHITELIST_PATTERNS, text, 1)), salt)

\* The pretrained entity classifier, a black box text -> entities: it is
\* represented by a lexicon of the words it labels.
NerLexicon ==
  << [word |-> <<"M","a","r","i","a">>, label |-> "PER"],
     [word |-> <<"A","c","m","e">>, label |-> "ORG"] >>

RECURSIVE NlpEntsOf(_, _, _)
NlpEntsOf(lex, text, ms) ==
  IF ms = << >> THEN << >>
  ELSE <<[label |-> lex.label, start_char |-> ms[1][1], end_char |-> ms[1][2],
          text |-> SubSeq(text, ms[1][1] + 1, ms[1][2])]>>
       \o NlpEntsOf(lex, text, Tail(ms))

RECURSIVE NlpFrom(_, _)
\* doc.ents of self.nlp(text)
NlpFrom(text, k) ==
  IF k > Len(NerLexicon) THEN << >>
  ELSE NlpEntsOf(NerLexicon[k], text,
                 FindIter(<<Wb>> \o Lit(NerLexicon[k].word) \o <<Wb>>, text, 0))
       \o NlpFrom(text, k + 1)

\* Configuration defaults (config.py); confidences in percent.
PiiNerConfidenceThreshold == 75
MaxBodySizeKb == 500
GetMaxBodySizeBytes == MaxBodySizeKb * 1024

NerTitles == {<<"d","r">>, <<"s","i","g">>, <<"s","i","g",".","r","a">>,
              <<"d","o","t","t">>, <<"p","r","o","f">>, <<"i","n","g">>}

LowerText(t) == [i \in 1..Len(t) |-> LowerChar(t[i])]
Min(a, b) == IF a < b THEN a ELSE b

RECURSIVE NerRedactionsOf(_, _)
\* The filtering loop of detect_pii_ner over doc.ents.
NerRedactionsOf(ents, salt) ==
  IF ents = << >> THEN << >>
  ELSE LET ent == ents[1]
           rest == NerRedactionsOf(Tail(ents), salt)
           pii_type == IF ent.label \in {"PERSON", "PER"} THEN "NAME" ELSE "ORG"
           confidence == Min(90, 70 + Len(ent.text)) IN
       IF ent.label \notin {"PERSON", "PER", "ORG"} THEN rest
       ELSE IF Len(ent.text) < 3 THEN rest
       ELSE IF LowerText(ent.text) \in NerTitles THEN rest
       ELSE IF confidence < PiiNerConfidenceThreshold THEN rest
       ELSE <<PIIRedaction(pii_type, HashPii(ent.text, salt), Placeholder(pii_type),
                           ent.start_char, ent.end_char, confidence, "ner")>>
            \o rest

\* PIIDetector.detect_pii_ner; nlpOk says whether self.nlp(text) returns.
DetectPiiNer(text, salt, nlpOk) ==
  IF ~nlpOk THEN [raised |-> "PIIDetectionError", redactions |-> << >>]
  ELSE [raised |-> "",
        redactions |-> NerRedactionsOf(NlpFrom(Take(text, GetMaxBodySizeBytes), 1), salt)]

RECURSIVE InsertByStart(_, _)
\* Insert r after every element whose span_start is <= r.span_start.
InsertByStart(sorted, r) ==
  IF sorted = << >> THEN <<r>>
  ELSE IF sorted[Len(sorted)].span_start <= r.span_start THEN Append(sorted, r)
  ELSE Append(InsertByStart(SubSeq(sorted, 1, Len(sorted) - 1), r), sorted[Len(sorted)])

RECURSIVE SortByStart(_)
\* sorted(redactions, key=lambda r: r.span_start)  (stable)
SortByStart(rs) ==
  IF rs = << >> THEN << >>
  ELSE InsertByStart(SortByStart(SubSeq(rs, 1, Len(rs) - 1)), rs[Len(rs)])

RECURSIVE InsertByStartDesc(_, _)
InsertByStartDesc(sorted, r) ==
  IF sorted = << >> THEN <<r>>
  ELSE IF sorted[Len(sorted)].span_start >= r.span_start THEN Append(sorted, r)
  ELSE Append(InsertByStartDesc(SubSeq(sorted, 1, Len(sorted) - 1), r),
              sorted[Len(sorted)])

\* An order that is NOT the code's: ascending span_start.
SortByStartAscending(rs) == SortByStart(rs)

RECURSIVE SortByStartDesc(_)
\* sorted(redactions, key=lambda r: r.span_start, reverse=True)  (stable)
SortByStartDesc(rs) ==
  IF rs = << >> THEN << >>
  ELSE InsertByStartDesc(SortByStartDesc(SubSeq(rs, 1, Len(rs) - 1)), rs[Len(rs)])

\* PIIDetector._overlaps
Overlaps(r1, r2) == ~(r1.span_end <= r2.span_start \/ r2.span_end <= r1.span_start)

RECURSIVE MergeSweepLongest(_, _, _)
\* A sweep that is NOT the code's: the longer span wins whatever the methods.
MergeSweepLongest(merged, current, rest) ==
  IF rest = << >> THEN Append(merged, current)
  ELSE IF Overlaps(current, rest[1])
  THEN IF rest[1].span_end - rest[1].span_start > current.span_end - current.span_start
       THEN MergeSweepLongest(merged, rest[1], Tail(rest))
       ELSE MergeSweepLongest(merged, current, Tail(rest))
  ELSE MergeSweepLongest(Append(merged, current), rest[1], Tail(rest))

RECURSIVE MergeSweep(_, _, _)
\* The sweep of merge_redactions: merged so far, running candidate, rest.
MergeSweep(merged, current, rest) ==
  IF rest = << >> THEN Append(merged, current)
  ELSE LET next_redaction == rest[1] IN
    IF Overlaps(current, next_redaction)
    THEN IF current.detection_method = "regex" /\ next_redaction.detection_method = "ner"
         THEN MergeSweep(merged, current, Tail(rest))
         ELSE IF current.detection_method = "ner"
                 /\ next_redaction.detection_method = "regex"
         THEN MergeSweep(merged, next_redaction, Tail(rest))
         ELSE IF next_redaction.span_end - next_redaction.span_start
                 > current.span_end - current.span_start
         THEN MergeSweep(merged, next_redaction, Tail(rest))
         ELSE MergeSweep(merged, current, Tail(rest))
    ELSE MergeSweep(Append(merged, current), next_redaction, Tail(rest))

\* A merge that is NOT the code's: the candidates are swept in input order.
MergeRedactionsUnsorted(redactions) ==
  IF redactions = << >> THEN << >>
  ELSE MergeSweep(<< >>, redactions[1], Tail(redactions))

\* PIIDetector.merge_redactions
MergeRedactions(redactions) ==
  IF redactions = << >> THEN << >>
  ELSE LET sorted_redactions == SortByStart(redactions) IN
       MergeSweep(<< >>, sorted_redactions[1], Tail(sorted_redactions))

\* text[lo:hi] for non-negative lo, hi (out-of-range offsets are clamped).
PySlice(text, lo, hi) == SubSeq(text, Min(lo, Len(text)) + 1, Min(hi, Len(text)))

RECURSIVE ApplyEach(_, _)
ApplyEach(text, rs) ==
  IF rs = << >> THEN text
  ELSE ApplyEach(PySlice(text, 0, rs[1].span_start) \o rs[1].redacted
                   \o PySlice(text, rs[1].span_end, Len(text)),
                 Tail(rs))

\* PIIDetector.apply_redactions
ApplyRedactions(text, redactions) ==
  IF redactions = << >> THEN text
  ELSE ApplyEach(text, SortByStartDesc(redactions))

\* detect_and_redact, step 4 and the return: apply the merged redactions.
ApplyMerged(text, merged_redactions) ==
  [raised |-> "", text |-> ApplyRedactions(text, merged_redactions),
   redactions |-> merged_redactions]

\* detect_and_redact, step 3, given the outcomes of the two detectors (an
\* exception of detect_pii_ner propagates).
MergeAndApply(text, regex_redactions, ner) ==
  IF ner.raised # ""
  THEN [raised |-> ner.raised, text |-> << >>, redactions |-> << >>]
  ELSE ApplyMerged(text, MergeRedactions(regex_redactions \o ner.redactions))

\* PIIDetector.detect_and_redact
DetectAndRedact(text, salt, nlpOk) ==
  MergeAndApply(text, DetectPiiRegex(text, salt), DetectPiiNer(text, salt, nlpOk))

\* Headers are a dict in insertion order: a sequence of [key, value].
RedactedHeaderKeys == {"from", "to", "cc", "bcc", "reply-to", "sender", "subject"}

HasKey(headers, key) == \E i \in 1..Len(headers) : headers[i].key = key
\* dict.get(key, default)
DictGet(headers, key, default) ==
  IF HasKey(headers, key)
  THEN headers[CHOOSE i \in 1..Len(headers) : headers[i].key = key].value
  ELSE default

\* redact_headers_pii: raises as soon as one detect_and_redact raises.
\* nlp_calls counts the invocations of the entity model.
RedactHeadersPii(headers, salt, nlpOk) ==
  LET redacted == [i \in 1..Len(headers) |->
                     IF headers[i].key \in RedactedHeaderKeys
                     THEN [key |-> headers[i].key,
                           value |-> DetectAndRedact(headers[i].value, salt, nlpOk).text]
                     ELSE headers[i]]
      targets == {i \in 1..Len(headers) : headers[i].key \in RedactedHeaderKeys} IN
  IF targets # {} /\ ~nlpOk
  THEN [raised |-> "PIIDetectionError", headers |-> << >>, nlp_calls |-> 1]
  ELSE [raised |-> "", headers |-> redacted, nlp_calls |-> Cardinality(targets)]

(***************************************************************************)
(* State.                                                                  *)
(***************************************************************************)
VARIABLES
  input,        \* the InputEmail of the call of preprocess_email_safe
  env,          \* what the call finds: configuration, model, salt
  pc,           \* the tier about to be attempted, or "returned" / "raised"
  attempted,    \* the tiers attempted so far, in order
  errors,       \* [tier, exc] of every tier that raised, in order
  result,       \* the EmailDocument returned, or NoDoc
  returned_by,  \* the tier whose return statement produced result
  nlp_calls,    \* per tier, the number of invocations of the entity model
  full_locals,  \* locals of preprocess_email when it reached step 7
  cx,           \* canonicalization: the input text
  cflags,       \* canonicalization: [remove_quotes, remove_signatures]
  runs,         \* canonicalization: the calls of canonicalize_text made
  rx_in,        \* safe_regex_finditer: [pattern index, text]
  rx_pc,        \* safe_regex_finditer: position of the calling thread
  rx_timer,     \* threading.Timer: "new", "running", "fired", "cancelled"
  rx_timed_out, \* the threading.Event timed_out
  rx_result,    \* the list result
  rx_yielded,   \* number of matches pattern.finditer has yielded
  rx_match,     \* the loop variable match (its span), << >> before the first
  rx_fired_at,  \* where the caller was when the watchdog fired ("" if not)
  pii,          \* PIIDetector calls: the arguments and what was returned
  retry,        \* a caller's retry loop around should_retry
  batch,        \* preprocess_email_batch: the inputs and the loop's progress
  caches,       \* the lru_cache singletons and the threads calling them
  models,       \* a construction of RemovedSection / PIIRedaction and its outcome
  subj,         \* canonicalize_subject: the calls made
  dogs,         \* safe_regex_finditer: the calls in progress with their watchdogs
  conf          \* the configuration source and the two cached singletons

orchVars == <<input, env, pc, attempted, errors, result, returned_by, nlp_calls,
              full_locals>>
canonVars == <<cx, cflags, runs>>
rxVars == <<rx_in, rx_pc, rx_timer, rx_timed_out, rx_result, rx_yielded, rx_match,
           rx_fired_at>>
utilVars == <<pii, retry, batch, caches>>
extVars == <<models, subj, dogs, conf>>
vars == <<orchVars, canonVars, rxVars, utilVars, extVars>>

(***************************************************************************)
(* Inputs.                                                                 *)
(***************************************************************************)
RECURSIVE Flatten(_)
Flatten(ss) == IF ss = << >> THEN << >> ELSE ss[1] \o Flatten(Tail(ss))

RECURSIVE SeqsUpTo(_, _)
\* The sequences over S of length at most n.
SeqsUpTo(S, n) ==
  IF n = 0 THEN {<< >>}
  ELSE LET shorter == SeqsUpTo(S, n - 1) IN
       shorter \cup {Append(q, x) : q \in shorter, x \in S}

BodyFrags == {<<"a","@","b",".","i","t">>, <<">"," ","x">>, <<"\n">>,
              <<"M","a","r","i","a">>, <<" ">>, <<"x">>}
BodyTexts == {Flatten(q) : q \in SeqsUpTo(BodyFrags, MaxFrags)}

StrBody(t) == [kind |-> "str", chars |-> t]
NoneBody == [kind |-> "None", chars |-> << >>]
BytesBody == [kind |-> "bytes", chars |-> <<"x">>]
Bodies == {StrBody(t) : t \in BodyTexts} \cup {NoneBody, BytesBody}

HeaderSets ==
  { << >>,
    <<[key |-> "from", value |-> <<"a","@","b",".","i","t">>]>>,
    <<[key |-> "x-id", value |-> <<"x">>],
      [key |-> "subject", value |-> <<"M","a","r","i","a">>]>> }

ConfigSalt == <<"k","1">>

Tiers == {"Full", "PatternOnly", "NoCanonical", "Minimal", "ErrorDocument"}
NoDoc == [none |-> TRUE]

(***************************************************************************)
(* models.py: PipelineVersion, EmailDocument.                              *)
(***************************************************************************)
\* PipelineVersion() with the dataclass defaults.
PipelineVersionDefault ==
  [parser_version |-> "email-parser-1.3.0", canonicalization_version |-> "1.3.0",
   ner_model_version |-> "it_core_news_lg-3.8.2", pii_redaction_version |-> "1.0.0"]

\* EmailDocument(...) as the degraded tiers build it (the fields read here).
EmailDocument(message_id, from_addr_redacted, subject_canonical, headers_canonical, body_text_canonical, body_original_hash, removed_sections, pii_entities, pipeline_version) ==
  [message_id |-> message_id, from_addr_redacted |-> from_addr_redacted,
   subject_canonical |-> subject_canonical, headers_canonical |-> headers_canonical,
   body_text_canonical |-> body_text_canonical,
   body_original_hash |-> body_original_hash,
   removed_sections |-> removed_sections, pii_entities |-> pii_entities,
   pipeline_version |-> pipeline_version]

(***************************************************************************)
(* config.py, pii_detection.py: the shared instances.                      *)
(***************************************************************************)
\* A get_config whose salt has a default: it never raises.
GetConfigDefaulted(e) == ""

\* get_config(): the exception it raises, "" if it returns.
GetConfig(e) == IF e.cfgOk THEN "" ELSE "ValueError"
\* get_pii_detector(): PIIDetector.__init__ loads the spaCy model.
GetPiiDetector(e) ==
  IF ~e.cfgOk THEN "ValueError"
  ELSE IF ~e.nlpLoadOk THEN "PIIDetectionError" ELSE ""

(***************************************************************************)
(* preprocessing.py                                                        *)
(***************************************************************************)
\* _compute_body_hash: body.encode raises on a value that is not a str.
ComputeBodyHash(body) ==
  IF body.kind # "str" THEN [raised |-> "AttributeError", hash |-> << >>]
  ELSE [raised |-> "", hash |-> [sha256 |-> body.chars]]

\* input_email.body_text or default
BodyOr(body, default) ==
  IF body.kind = "None" \/ (body.kind = "str" /\ body.chars = << >>)
  THEN StrBody(default) ELSE body

\* extract_body_parts_from_truncated + merge_body_parts for an email without
\* raw_bytes and without HTML part, with the fallback of step 2-3.
MergedBody(body) ==
  IF body.kind = "None" THEN StrBody(<< >>)
  ELSE IF body.kind = "str" /\ Strip(body.chars) = << >> THEN StrBody(<< >>)
  ELSE body

\* The outcomes step 4 of preprocess_email can have (canonicalize_text on a
\* value that is not a str raises: except branch).
CanonOutcomes(inp) ==
  LET merged_body == MergedBody(inp.body_text) IN
  IF merged_body.kind = "str"
  THEN CanonicalizeText(merged_body.chars, TRUE, TRUE, MaxTimeouts)
  ELSE {[text |-> << >>, removed |-> << >>, timeouts |-> {}]}

\* Step 1 of preprocess_email: input_email.headers_raw does not exist, the
\* except branch sets headers = {}.
ParsedHeaders == << >>

\* Step 4 with its fallback: canon is the outcome of canonicalize_text.
CanonicalBody(merged_body, canon) ==
  IF merged_body.kind = "str" THEN StrBody(canon.text) ELSE merged_body

\* The locals of preprocess_email after steps 5a, 5b and 6, given the
\* outcomes dr and hr of the two redaction calls (each with its fallback).
FullLocalsOf(headers, canonical_body, removed_sections, dr, hr) ==
  [headers |-> headers,
   canonical_body |-> canonical_body,
   removed_sections |-> removed_sections,
   redacted_body |-> IF canonical_body.kind = "str" /\ dr.raised = ""
                     THEN StrBody(dr.text) ELSE canonical_body,
   pii_redactions |-> IF canonical_body.kind = "str" /\ dr.raised = ""
                      THEN dr.redactions ELSE << >>,
   redacted_headers |-> IF hr.raised = "" THEN hr.headers ELSE headers,
   nlp_calls |-> (IF canonical_body.kind = "str" THEN 1 ELSE 0) + hr.nlp_calls]

\* Steps 5a and 5b of preprocess_email.
FullRedact(headers, canonical_body, removed_sections, e) ==
  FullLocalsOf(headers, canonical_body, removed_sections,
               DetectAndRedact(canonical_body.chars, e.salt, e.nlpOk),
               RedactHeadersPii(headers, e.salt, e.nlpOk))

\* Steps 1-6 of preprocess_email: every step has its local fallback.
\* canon is the outcome of step 4.
FullLocals(inp, e, canon) ==
  FullRedact(ParsedHeaders, CanonicalBody(MergedBody(inp.body_text), canon),
             canon.removed, e)

\* Step 7 of preprocess_email evaluates config.pipeline_version, which
\* PreprocessingConfig does not have, and PipelineVersion(version=...),
\* which PipelineVersion does not accept: it raises with the locals l.
FullCreateDocument(l) ==
  [raised |-> "AttributeError", doc |-> NoDoc, nlp_calls |-> l.nlp_calls, locals |-> l]

\* preprocess_email: [raised, doc, nlp_calls, locals].
PreprocessEmail(inp, e, canon) ==
  IF GetConfig(e) # ""
  THEN [raised |-> GetConfig(e), doc |-> NoDoc, nlp_calls |-> 0, locals |-> NoDoc]
  ELSE IF GetPiiDetector(e) # ""
  THEN [raised |-> GetPiiDetector(e), doc |-> NoDoc, nlp_calls |-> 0, locals |-> NoDoc]
  ELSE FullCreateDocument(FullLocals(inp, e, canon))

\* _create_error_document: get_config(), then the same construction as step 7.
CreateErrorDocument(inp, e, error) ==
  IF GetConfig(e) # "" THEN [raised |-> GetConfig(e), doc |-> NoDoc, nlp_calls |-> 0]
  ELSE [raised |-> "AttributeError", doc |-> NoDoc, nlp_calls |-> 0]

(***************************************************************************)
(* error_handling.py                                                       *)
(***************************************************************************)
PiiEmailToken == <<"[","P","I","I","_","E","M","A","I","L","]">>
Unknown == <<"u","n","k","n","o","w","n">>
BodyUnavailable == <<"[","B","O","D","Y"," ","U","N","A","V","A","I","L","A","B","L","E","]">>

NoResult == [raised |-> "", doc |-> NoDoc, nlp_calls |-> 0]
Raise(exc, calls) == [raised |-> exc, doc |-> NoDoc, nlp_calls |-> calls]

\* The PipelineVersion each tier embeds in its document: the three degraded
\* tiers all construct PipelineVersion(); preprocess_email and
\* _create_error_document construct none (their construction raises).
TierPipelineVersion(tier) ==
  CASE tier = "PatternOnly" -> PipelineVersionDefault
    [] tier = "NoCanonical" -> PipelineVersionDefault
    [] tier = "Minimal" -> PipelineVersionDefault
    [] OTHER -> NoDoc

\* preprocess_email_regex_only from "Compute hash" on, with the locals l =
\* [redactions, redacted_body, redacted_headers, nlp_calls]:
\* _compute_body_hash is not guarded, then the document is built.
RegexOnlyDocument(inp, l) ==
  IF ComputeBodyHash(l.redacted_body).raised # ""
  THEN Raise(ComputeBodyHash(l.redacted_body).raised, l.nlp_calls)
  ELSE [raised |-> "",
        doc |-> EmailDocument(inp.message_id,
                  DictGet(l.redacted_headers, "from", PiiEmailToken),
                  DictGet(l.redacted_headers, "subject", << >>),
                  l.redacted_headers, l.redacted_body.chars,
                  ComputeBodyHash(l.redacted_body).hash,
                  << >>, l.redactions, TierPipelineVersion("PatternOnly")),
        nlp_calls |-> l.nlp_calls]

\* The two guarded blocks of preprocess_email_regex_only, given the detected
\* redactions and the outcome hr of redact_headers_pii.  A bytes body makes
\* the str patterns raise TypeError: except branch.
RegexOnlyRedact(body, headers, redactions, hr) ==
  [redactions |-> redactions,
   redacted_body |-> IF body.kind = "str"
                     THEN StrBody(ApplyRedactions(body.chars, redactions)) ELSE body,
   redacted_headers |-> IF hr.raised = "" THEN hr.headers ELSE headers,
   nlp_calls |-> hr.nlp_calls]

RegexOnlyLocals(body, headers, e) ==
  RegexOnlyRedact(body, headers,
                  IF body.kind = "str" THEN DetectPiiRegex(body.chars, e.salt) ELSE << >>,
                  RedactHeadersPii(headers, e.salt, e.nlpOk))

\* preprocess_email_regex_only: [raised, doc, nlp_calls]
PreprocessEmailRegexOnly(inp, e) ==
  IF GetConfig(e) # "" THEN Raise(GetConfig(e), 0)
  ELSE IF GetPiiDetector(e) # "" THEN Raise(GetPiiDetector(e), 0)
  ELSE RegexOnlyDocument(inp, RegexOnlyLocals(BodyOr(inp.body_text, << >>),
                                              inp.headers, e))

\* preprocess_email_no_canon from the body hash on, with the locals l.
NoCanonDocument(inp, l) ==
  IF ComputeBodyHash(l.redacted_body).raised # ""
  THEN Raise(ComputeBodyHash(l.redacted_body).raised, l.nlp_calls)
  ELSE [raised |-> "",
        doc |-> EmailDocument(inp.message_id,
                  DictGet(l.redacted_headers, "from", PiiEmailToken),
                  DictGet(l.redacted_headers, "subject", << >>),
                  l.redacted_headers, l.redacted_body.chars,
                  ComputeBodyHash(l.redacted_body).hash,
                  << >>, l.redactions, TierPipelineVersion("NoCanonical")),
        nlp_calls |-> l.nlp_calls]

\* The two guarded blocks of preprocess_email_no_canon.
NoCanonRedact(body, headers, redactions, hr) ==
  [redactions |-> redactions,
   redacted_body |-> IF body.kind = "str"
                     THEN StrBody(ApplyRedactions(body.chars, redactions)) ELSE body,
   redacted_headers |-> IF hr.raised = "" THEN hr.headers ELSE headers,
   nlp_calls |-> hr.nlp_calls]

NoCanonLocals(body, headers, e) ==
  NoCanonRedact(body, headers,
                IF body.kind = "str" THEN DetectPiiRegex(body.chars, e.salt) ELSE << >>,
                RedactHeadersPii(headers, e.salt, e.nlpOk))

\* preprocess_email_no_canon: [raised, doc, nlp_calls]
PreprocessEmailNoCanon(inp, e) ==
  IF GetConfig(e) # "" THEN Raise(GetConfig(e), 0)
  ELSE IF GetPiiDetector(e) # "" THEN Raise(GetPiiDetector(e), 0)
  ELSE NoCanonDocument(inp, NoCanonLocals(BodyOr(inp.body_text, << >>),
                                          inp.headers, e))

\* create_minimal_document: [raised, doc, nlp_calls]
CreateMinimalDocument(inp, e) ==
  IF GetConfig(e) # "" THEN Raise(GetConfig(e), 0)
  ELSE
    LET headers == IF inp.headers # << >> THEN inp.headers
                   ELSE <<[key |-> "from", value |-> Unknown],
                          [key |-> "subject", value |-> Unknown]>>
        body == BodyOr(inp.body_text, BodyUnavailable)
        bh == ComputeBodyHash(body)
    IN IF bh.raised # "" THEN Raise(bh.raised, 0)
       ELSE [raised |-> "",
             doc |-> EmailDocument(inp.message_id,
                       DictGet(headers, "from", Unknown),
                       DictGet(headers, "subject", Unknown),
                       headers, body.chars, bh.hash, << >>, << >>,
                       TierPipelineVersion("Minimal")),
             nlp_calls |-> 0]

\* A handler that would send a catastrophic failure straight to the last tier.
FallbackAfterCatastrophic(tier, exc) ==
  CASE tier = "ErrorDocument" -> "raised"
    [] tier = "Minimal" -> "ErrorDocument"
    [] exc = "MemoryError" -> "Minimal"
    [] tier = "Full" -> "PatternOnly"
    [] tier = "PatternOnly" -> "NoCanonical"
    [] OTHER -> "Minimal"

\* A chain that skips the regex-only tier.
FallbackAfterSkip(tier, exc) ==
  CASE tier = "Full" -> "NoCanonical"
    [] tier = "PatternOnly" -> "NoCanonical"
    [] tier = "NoCanonical" -> "Minimal"
    [] tier = "Minimal" -> "ErrorDocument"
    [] OTHER -> "raised"

\* The except clauses of preprocess_email_safe: where control goes when a
\* tier raises exc ("except Exception" also catches MemoryError).
FallbackAfter(tier, exc) ==
  CASE tier = "Full" -> "PatternOnly"
    [] tier = "PatternOnly" -> "NoCanonical"
    [] tier = "NoCanonical" -> "Minimal"
    [] tier = "Minimal" -> "ErrorDocument"
    [] OTHER -> "raised"

\* A resource-exhaustion error raised by an unguarded statement of a tier.
MemoryErrors == Cardinality({i \in 1..Len(errors) : errors[i].exc = "MemoryError"})
Faults == IF MemoryErrors < MaxFaults THEN {"", "MemoryError"} ELSE {""}

\* One try block of preprocess_email_safe with its except clause; r is the
\* outcome of the tier's function.
Attempt(tier, r, fault) ==
  LET exc == IF fault # "" THEN fault ELSE r.raised IN
  /\ attempted' = Append(attempted, tier)
  /\ nlp_calls' = [nlp_calls EXCEPT ![tier] = r.nlp_calls]
  /\ full_locals' = IF tier = "Full" THEN r.locals ELSE full_locals
  /\ IF exc = ""
     THEN /\ pc' = "returned"
          /\ result' = r.doc
          /\ returned_by' = tier
          /\ errors' = errors
     ELSE /\ pc' = FallbackAfter(tier, exc)
          /\ errors' = Append(errors, [tier |-> tier, exc |-> exc])
          /\ UNCHANGED <<result, returned_by>>

TryFull ==
  /\ pc = "Full"
  /\ \E canon \in CanonOutcomes(input), fault \in Faults :
       Attempt("Full", PreprocessEmail(input, env, canon), fault)
  /\ UNCHANGED <<input, env, canonVars, rxVars, utilVars, extVars>>

TryPatternOnly ==
  /\ pc = "PatternOnly"
  /\ \E fault \in Faults : Attempt("PatternOnly", PreprocessEmailRegexOnly(input, env), fault)
  /\ UNCHANGED <<input, env, canonVars, rxVars, utilVars, extVars>>

TryNoCanonical ==
  /\ pc = "NoCanonical"
  /\ \E fault \in Faults : Attempt("NoCanonical", PreprocessEmailNoCanon(input, env), fault)
  /\ UNCHANGED <<input, env, canonVars, rxVars, utilVars, extVars>>

TryMinimal ==
  /\ pc = "Minimal"
  /\ \E fault \in Faults : Attempt("Minimal", CreateMinimalDocument(input, env), fault)
  /\ UNCHANGED <<input, env, canonVars, rxVars, utilVars, extVars>>

TryErrorDocument ==
  /\ pc = "ErrorDocument"
  /\ \E fault \in Faults :
       Attempt("ErrorDocument",
               CreateErrorDocument(input, env, errors[Len(errors)].exc), fault)
  /\ UNCHANGED <<input, env, canonVars, rxVars, utilVars, extVars>>

CanonIdle == cx = << >> /\ cflags = [remove_quotes |-> TRUE, remove_signatures |-> TRUE]
             /\ runs = << >>
RxIdle == rx_in = [k |-> 1, text |-> << >>] /\ rx_pc = "idle" /\ rx_timer = "new"
          /\ rx_timed_out = FALSE /\ rx_result = << >> /\ rx_yielded = 0
          /\ rx_match = << >> /\ rx_fired_at = ""
UtilIdle == pii = << >> /\ retry = << >> /\ batch = << >> /\ caches = << >>
ExtIdle == models = << >> /\ subj = << >> /\ dogs = << >> /\ conf = << >>
OrchIdle == input = [message_id |-> "", headers |-> << >>, body_text |-> NoneBody]
            /\ env = [cfgOk |-> TRUE, nlpLoadOk |-> TRUE, nlpOk |-> TRUE,
                      salt |-> ConfigSalt]
            /\ pc = "idle" /\ attempted = << >> /\ errors = << >> /\ result = NoDoc
            /\ returned_by = "" /\ nlp_calls = [t \in Tiers |-> 0]
            /\ full_locals = NoDoc

Init ==
  /\ input \in [message_id : {"<m1>"}, headers : HeaderSets, body_text : Bodies]
  /\ env \in [cfgOk : BOOLEAN, nlpLoadOk : BOOLEAN, nlpOk : BOOLEAN,
              salt : {ConfigSalt}]
  /\ pc = "Full"
  /\ attempted = << >>
  /\ errors = << >>
  /\ result = NoDoc
  /\ returned_by = ""
  /\ nlp_calls = [t \in Tiers |-> 0]
  /\ full_locals = NoDoc
  /\ CanonIdle
  /\ RxIdle
  /\ UtilIdle
  /\ ExtIdle

Next == TryFull \/ TryPatternOnly \/ TryNoCanonical \/ TryMinimal \/ TryErrorDocument

Spec == Init /\ [][Next]_vars

(***************************************************************************)
(* Properties of the fallback chain.                                       *)
(***************************************************************************)
TierOrder == <<"Full", "PatternOnly", "NoCanonical", "Minimal", "ErrorDocument">>
DegradedTiers == {"PatternOnly", "NoCanonical", "Minimal"}
Raised(tier) == \E i \in 1..Len(errors) : errors[i].tier = tier

\* A version tag identifies a tier when no other tier embeds the same tag.
TagIdentifies(pv, tier) == \A t \in Tiers \ {tier} : TierPipelineVersion(t) # pv

\* C1: preprocess_email_safe never propagates an exception: the call always
\* ends by returning a document, and when the Minimal tier raised, the
\* document returned is the error document built by _create_error_document.
C1_SafeNeverRaises ==
  /\ pc # "raised"
  /\ (pc = "returned" /\ Raised("Minimal"))
       => (result # NoDoc /\ returned_by = "ErrorDocument")

\* C2: the tiers are attempted in the order Full, PatternOnly, NoCanonical,
\* Minimal, ErrorDocument, each only after all earlier ones raised and none
\* twice; the first tier that returns ends the call with its document.
C2_TiersInOrder ==
  /\ Len(attempted) <= Len(TierOrder)
  /\ attempted = SubSeq(TierOrder, 1, Len(attempted))
  /\ Len(errors) <= Len(attempted)
  /\ \A i \in 1..Len(errors) : errors[i].tier = attempted[i]
  /\ pc \in Tiers => (Len(errors) = Len(attempted) /\ pc = TierOrder[Len(attempted) + 1])
  /\ pc = "returned" => /\ Len(errors) = Len(attempted) - 1
                        /\ returned_by = attempted[Len(attempted)]
                        /\ result # NoDoc
  /\ pc = "raised" => (attempted = TierOrder /\ Len(errors) = Len(TierOrder))

\* A call that fell through three tiers and ended in the fourth.
C2_Witness == pc = "returned" /\ returned_by = "Minimal" /\ Len(errors) = 3

\* The entity model loads but raises when it is invoked; nothing else fails.
ModelFails ==
  /\ env.cfgOk /\ env.nlpLoadOk /\ ~env.nlpOk
  /\ input.body_text.kind = "str"
  /\ MemoryErrors = 0

\* C3: when the entity model fails, the document returned comes from the
\* PatternOnly tier: its version tag indicates that tier, its body has the
\* pattern-detected PII replaced, and every redaction is a pattern redaction
\* of confidence 1.0.
C3_ModelFailureGivesPatternOnly ==
  (pc = "returned" /\ ModelFails) =>
    /\ returned_by = "PatternOnly"
    /\ TagIdentifies(result.pipeline_version, "PatternOnly")
    /\ result.body_text_canonical =
         ApplyRedactions(input.body_text.chars,
                         DetectPiiRegex(input.body_text.chars, env.salt))
    /\ \A i \in 1..Len(result.pii_entities) :
         /\ result.pii_entities[i].detection_method = "regex"
         /\ result.pii_entities[i].confidence = 100

\* C4: the pipeline_version of a document of a degraded tier identifies
\* that tier, so degraded output can be told from the output of any other
\* tier by the tag alone.
C4_DegradedTagIdentifiesTier ==
  (pc = "returned" /\ returned_by \in DegradedTiers) =>
    TagIdentifies(result.pipeline_version, returned_by)

\* C5: the PatternOnly tier never invokes the entity model, neither for
\* the body nor for a header.
C5_PatternOnlyNeverCallsModel == nlp_calls["PatternOnly"] = 0

HasRemovableQuote(t) ==
  LET removed == InTime(CanonicalizeText(t, TRUE, TRUE, 0)).removed IN
  \E i \in 1..Len(removed) : removed[i].type = "quote_standard"

\* C6: the PatternOnly tier still canonicalizes the body and records the
\* removed sections; for a body with a removable quote its document differs
\* from the one the NoCanonical tier builds.
C6_PatternOnlyStillCanonicalizes ==
  (pc = "returned" /\ returned_by = "PatternOnly"
     /\ HasRemovableQuote(input.body_text.chars)) =>
    /\ result.removed_sections # << >>
    /\ result # PreprocessEmailNoCanon(input, env).doc

BeforeMinimal == {"Full", "PatternOnly", "NoCanonical"}
\* The tier entered after the i-th failure (the one about to be attempted
\* when it has not been attempted yet).
EnteredAfter(i) == IF i < Len(attempted) THEN attempted[i + 1] ELSE pc

CanonFrags == {<<"O","n">>, <<" ","w","r","o","t","e",":">>, <<">">>, <<"\n">>,
               <<" ">>, <<"x">>, <<"-","-">>}
CanonTexts == {Flatten(q) : q \in SeqsUpTo(CanonFrags, MaxCanonFrags)}

\* One call canonicalize_text(text, **cflags) with outcome o, followed by the
\* pattern detection of step 5a on the canonical text.
CanonRun(kind, text, o) ==
  [kind |-> kind, input |-> text, text |-> o.text, removed |-> o.removed,
   timeouts |-> o.timeouts, pii |-> DetectPiiRegex(o.text, ConfigSalt)]

CanonCall(kind, text) ==
  \E o \in CanonicalizeText(text, cflags.remove_quotes, cflags.remove_signatures,
                            MaxTimeouts) :
    runs' = Append(runs, CanonRun(kind, text, o))

CanonFirst ==
  /\ runs = << >>
  /\ CanonCall("first", cx)
  /\ UNCHANGED <<cx, cflags, orchVars, rxVars, utilVars, extVars>>

\* The same input once more (a second run of the pipeline stage).
CanonRepeat ==
  /\ Len(runs) = 1
  /\ CanonCall("repeat", cx)
  /\ UNCHANGED <<cx, cflags, orchVars, rxVars, utilVars, extVars>>

\* canonicalize_text applied to its own output.
CanonSecondPass ==
  /\ Len(runs) = 1
  /\ CanonCall("second_pass", runs[1].text)
  /\ UNCHANGED <<cx, cflags, orchVars, rxVars, utilVars, extVars>>

InitCanon ==
  /\ cx \in CanonTexts
  /\ cflags \in [remove_quotes : BOOLEAN, remove_signatures : BOOLEAN]
  /\ runs = << >>
  /\ OrchIdle
  /\ RxIdle
  /\ UtilIdle
  /\ ExtIdle

NextCanon == CanonFirst \/ CanonRepeat \/ CanonSecondPass

SpecCanon == InitCanon /\ [][NextCanon]_vars

\* C8: canonicalize_text is idempotent when no pattern times out: a second
\* pass over the output of the first changes nothing and removes nothing.
C8_CanonicalizeIdempotent ==
  (Len(runs) = 2 /\ runs[2].kind = "second_pass"
     /\ runs[1].timeouts = {} /\ runs[2].timeouts = {}) =>
    (runs[2].text = runs[1].text /\ runs[2].removed = << >>)

SameOutput(r1, r2) ==
  r1.text = r2.text /\ r1.removed = r2.removed /\ r1.pii = r2.pii

DeterministicGivenSameTimeouts ==
  (Len(runs) = 2 /\ runs[2].kind = "repeat" /\ runs[1].timeouts = runs[2].timeouts)
    => SameOutput(runs[1], runs[2])

(***************************************************************************)
(* safe_regex_finditer: the calling thread and its threading.Timer.        *)
(***************************************************************************)
RxTexts == {Flatten(q) : q \in SeqsUpTo(CanonFrags, MaxFrags)}
\* What pattern.finditer(text) yields.
RxMatches == FindIter(QUOTE_PATTERNS[rx_in.k].re, rx_in.text, 0)

\* timer.start()
RxStart ==
  /\ rx_pc = "start"
  /\ rx_timer' = "running"
  /\ rx_pc' = "scan"
  /\ UNCHANGED <<rx_in, rx_timed_out, rx_result, rx_yielded, rx_match, rx_fired_at,
                 orchVars, canonVars, utilVars, extVars>>

\* The iterator finds the next match (after a scan of any duration).
RxYield ==
  /\ rx_pc = "scan"
  /\ rx_yielded < Len(RxMatches)
  /\ rx_yielded' = rx_yielded + 1
  /\ rx_match' = RxMatches[rx_yielded + 1]
  /\ rx_pc' = "check"
  /\ UNCHANGED <<rx_in, rx_timer, rx_timed_out, rx_result, rx_fired_at,
                 orchVars, canonVars, utilVars, extVars>>

\* The iterator is exhausted: the loop ends, "return result" is reached.
RxExhausted ==
  /\ rx_pc = "scan"
  /\ rx_yielded = Len(RxMatches)
  /\ rx_pc' = "return"
  /\ UNCHANGED <<rx_in, rx_timer, rx_timed_out, rx_result, rx_yielded, rx_match,
                 rx_fired_at,
                 orchVars, canonVars, utilVars, extVars>>

\* The loop body: read the flag, raise (the except clause logs and
\* re-raises) or append the match.
RxCheck ==
  /\ rx_pc = "check"
  /\ IF rx_timed_out
     THEN rx_pc' = "raise" /\ UNCHANGED rx_result
     ELSE rx_pc' = "scan" /\ rx_result' = Append(rx_result, rx_match)
  /\ UNCHANGED <<rx_in, rx_timer, rx_timed_out, rx_yielded, rx_match, rx_fired_at,
                 orchVars, canonVars, utilVars, extVars>>

\* finally: timer.cancel(), then the return or the exception takes effect.
RxFinally ==
  /\ rx_pc \in {"return", "raise"}
  /\ rx_timer' = IF rx_timer = "running" THEN "cancelled" ELSE rx_timer
  /\ rx_pc' = IF rx_pc = "return" THEN "returned" ELSE "raised"
  /\ UNCHANGED <<rx_in, rx_timed_out, rx_result, rx_yielded, rx_match, rx_fired_at,
                 orchVars, canonVars, utilVars, extVars>>

\* The timer thread: timeout_handler sets the flag.
RxTimerFire ==
  /\ rx_timer = "running"
  /\ rx_timer' = "fired"
  /\ rx_timed_out' = TRUE
  /\ rx_fired_at' = rx_pc
  /\ UNCHANGED <<rx_in, rx_pc, rx_result, rx_yielded, rx_match, orchVars, canonVars,
                 utilVars, extVars>>

InitRegex ==
  /\ rx_in \in [k : 1..Len(QUOTE_PATTERNS), text : RxTexts]
  /\ rx_pc = "start"
  /\ rx_timer = "new"
  /\ rx_timed_out = FALSE
  /\ rx_result = << >>
  /\ rx_yielded = 0
  /\ rx_match = << >>
  /\ rx_fired_at = ""
  /\ OrchIdle
  /\ CanonIdle
  /\ UtilIdle
  /\ ExtIdle

NextRegex == RxStart \/ RxYield \/ RxExhausted \/ RxCheck \/ RxFinally \/ RxTimerFire

SpecRegex == InitRegex /\ [][NextRegex]_vars

\* C10: the call returns the match list only if no watchdog fired before the
\* match iteration finished; when it fired while the iteration was still
\* running (scanning or about to check a match) the call ends with
\* RegexTimeoutError, also when the pattern yields no match at all.
C10_TimeoutAlwaysRaises ==
  /\ rx_pc = "returned" => (rx_fired_at \notin {"scan", "check"} /\ rx_result = RxMatches)
  /\ (rx_pc \in {"returned", "raised"} /\ rx_fired_at \in {"scan", "check"})
       => rx_pc = "raised"

\* safe_regex_finditer with the scheduling the code can rely on: the timer
\* thread runs, and the calling thread executes its own statements; the
\* matcher (pattern.finditer, RxYield and RxExhausted) runs inside the calling
\* thread for as long as the scan takes, so no progress of it is assumed.
SpecRegexLive ==
  /\ InitRegex /\ [][NextRegex]_vars
  /\ WF_vars(RxTimerFire)
  /\ WF_vars(RxStart) /\ WF_vars(RxCheck) /\ WF_vars(RxFinally)

\* C11: the caller is never blocked indefinitely: once the watchdog has
\* fired, the call eventually returns or raises, whatever the matcher does.
C11_CallerNeverBlocked == rx_timed_out ~> (rx_pc \in {"returned", "raised"})

(***************************************************************************)
(* Claims about the pattern loop of canonicalize_text (SpecCanon).         *)
(***************************************************************************)
RECURSIVE TableWithout(_, _, _, _, _, _)
\* The pattern table run from index k on with the patterns of skipped left
\* out and no watchdog firing: what "only that pattern is skipped" means.
TableWithout(text, removed, k, skipped, remove_quotes, remove_signatures) ==
  IF k > Len(QUOTE_PATTERNS) THEN [text |-> text, removed |-> removed]
  ELSE IF k \in skipped
         \/ (~remove_quotes /\ QUOTE_PATTERNS[k].type \in QuoteGroup)
         \/ (~remove_signatures /\ QUOTE_PATTERNS[k].type \in SignatureGroup)
  THEN TableWithout(text, removed, k + 1, skipped, remove_quotes, remove_signatures)
  ELSE TableWithout(Sub(QUOTE_PATTERNS[k].re, text, <<"\n">>),
                    removed \o SectionsOf(QUOTE_PATTERNS[k], text,
                                          FindIter(QUOTE_PATTERNS[k].re, text, 0)),
                    k + 1, skipped, remove_quotes, remove_signatures)

\* Steps 1-3 of canonicalize_text.
Normalized(text) == NormalizeUnicodeWhitespace(NormalizeNFC(NormalizeLineEndings(text)))

SkipsOnly(run, ref) ==
  /\ run.removed = ref.removed
  /\ run.text = CleanupExcessiveWhitespace(ref.text)

\* C12: when the guarded match of a pattern times out, only that pattern is
\* skipped: the call returns the text and the RemovedSections that the table
\* without the timed-out patterns produces (nothing recorded or removed for
\* the skipped pattern, every later pattern applied), whitespace cleanup done.
C12_TimeoutSkipsOnlyThatPattern ==
  \A i \in 1..Len(runs) :
    runs[i].kind = "first" /\ runs[i].timeouts # {} =>
      SkipsOnly(runs[i], TableWithout(Normalized(runs[i].input), << >>, 1, runs[i].timeouts,
                                      cflags.remove_quotes, cflags.remove_signatures))

\* A run in which a pattern timed out and a later pattern removed a section.
C12_Witness ==
  \E i \in 1..Len(runs) :
    /\ runs[i].timeouts # {}
    /\ runs[i].removed # << >>
    /\ runs[i].text # Normalized(runs[i].input)

(***************************************************************************)
(* PIIDetector: single calls of merge_redactions, apply_redactions and     *)
(* detect_pii_regex.                                                       *)
(***************************************************************************)
\* The text the candidate spans of a merge or apply call refer to.
PiiText == <<"a","b","c","d","e","f","g","h","i","j","k","l","m">>
\* Spans [start, end) of candidates: short and long, nested, partly
\* overlapping, adjacent.
PiiSpans == {<<0, 2>>, <<1, 3>>, <<0, 3>>, <<2, 3>>, <<3, 13>>, <<1, 13>>}

\* A candidate as the detectors build it: a structured-pattern one
\* (detect_pii_regex) or an entity one (detect_pii_ner).
Candidate(span, method) ==
  PIIRedaction(IF method = "regex" THEN "CF" ELSE "NAME",
               HashPii(SubSeq(PiiText, span[1] + 1, span[2]), ConfigSalt),
               Placeholder(IF method = "regex" THEN "CF" ELSE "NAME"),
               span[1], span[2], IF method = "regex" THEN 100 ELSE 85, method)
Candidates == {Candidate(sp, m) : sp \in PiiSpans, m \in {"regex", "ner"}}
CandidateLists == SeqsUpTo(Candidates, MaxCands)

PiiFrags == {<<"r","i","f"," ">>, <<"0","1","2"," ","3","4","5","6","7","8">>, <<"5","@","b",".","i","t">>, <<"1","2","3","4","5","6","7","8","9","0","1">>, <<" ">>, <<"x">>}
PiiTexts == {Flatten(q) : q \in SeqsUpTo(PiiFrags, MaxPiiFrags)}

PiiCall(call, text, redactions) ==
  [call |-> call, text |-> text, redactions |-> redactions, pc |-> "called", out |-> << >>]

\* merged = self.merge_redactions(redactions)
PiiMerge ==
  /\ pii.call = "merge_redactions" /\ pii.pc = "called"
  /\ pii' = [pii EXCEPT !.pc = "returned", !.out = MergeRedactions(pii.redactions)]
  /\ UNCHANGED <<retry, batch, caches, orchVars, canonVars, rxVars, extVars>>

\* redacted = self.apply_redactions(text, redactions)
PiiApply ==
  /\ pii.call = "apply_redactions" /\ pii.pc = "called"
  /\ pii' = [pii EXCEPT !.pc = "returned",
                        !.out = ApplyRedactions(pii.text, pii.redactions)]
  /\ UNCHANGED <<retry, batch, caches, orchVars, canonVars, rxVars, extVars>>

\* redactions = self.detect_pii_regex(text)
PiiDetectRegex ==
  /\ pii.call = "detect_pii_regex" /\ pii.pc = "called"
  /\ pii' = [pii EXCEPT !.pc = "returned", !.out = DetectPiiRegex(pii.text, ConfigSalt)]
  /\ UNCHANGED <<retry, batch, caches, orchVars, canonVars, rxVars, extVars>>

InitPii ==
  /\ pii \in {PiiCall(c, PiiText, rs) : c \in {"merge_redactions", "apply_redactions"}, rs \in CandidateLists}
            \cup {PiiCall("detect_pii_regex", t, << >>) : t \in PiiTexts}
  /\ retry = << >> /\ batch = << >> /\ caches = << >>
  /\ OrchIdle
  /\ CanonIdle
  /\ RxIdle
  /\ ExtIdle

NextPii == PiiMerge \/ PiiApply \/ PiiDetectRegex

SpecPii == InitPii /\ [][NextPii]_vars

Merged == pii.call = "merge_redactions" /\ pii.pc = "returned"
SpanLen(r) == r.span_end - r.span_start
\* Two candidates share a position of the text.
SharePosition(a, b) ==
  \E i \in 0..Len(PiiText) : a.span_start <= i /\ i < a.span_end /\ b.span_start <= i /\ i < b.span_end

\* The candidate the claimed tie-break picks of two overlapping ones.
Preferred(a, b) ==
  IF a.detection_method # b.detection_method
  THEN IF a.detection_method = "regex" THEN a ELSE b
  ELSE IF SpanLen(a) > SpanLen(b) THEN a
  ELSE IF SpanLen(b) > SpanLen(a) THEN b
  ELSE IF a.span_start <= b.span_start THEN a ELSE b

\* C13: merge_redactions given two overlapping candidates returns exactly one
\* of them: the pattern-method one if the methods differ, whichever starts
\* first; with the same method the longer one, the earlier one on equal length.
C13_MergeTieBreak ==
  (Merged /\ Len(pii.redactions) = 2 /\ SharePosition(pii.redactions[1], pii.redactions[2]))
    => pii.out = <<Preferred(pii.redactions[1], pii.redactions[2])>>

\* A merge of an entity candidate that starts first and is longer with an
\* overlapping pattern candidate has returned.
C13_Witness ==
  /\ Merged /\ Len(pii.redactions) = 2
  /\ SharePosition(pii.redactions[1], pii.redactions[2])
  /\ \E i, j \in 1..2 :
       /\ pii.redactions[i].detection_method = "ner"
       /\ pii.redactions[j].detection_method = "regex"
       /\ pii.redactions[i].span_start < pii.redactions[j].span_start
       /\ SpanLen(pii.redactions[i]) > SpanLen(pii.redactions[j])

NoTwoOverlap(rs) == \A i, j \in 1..Len(rs) : i # j => ~SharePosition(rs[i], rs[j])

Applied == pii.call = "apply_redactions" /\ pii.pc = "returned"
InText(rs, text) == \A i \in 1..Len(rs) : rs[i].span_end <= Len(text)

RECURSIVE Redacted(_, _, _)
\* The text from offset i on with every span of rs replaced by its
\* placeholder and every other character kept, read left to right.
Redacted(text, rs, i) ==
  IF i >= Len(text) THEN << >>
  ELSE IF \E r \in rs : r.span_start = i
  THEN (CHOOSE r \in rs : r.span_start = i).redacted
       \o Redacted(text, rs, (CHOOSE r \in rs : r.span_start = i).span_end)
  ELSE <<text[i + 1]>> \o Redacted(text, rs, i + 1)

Detected == pii.call = "detect_pii_regex" /\ pii.pc = "returned"
\* The spans of the business-whitelist matches in text.
WhitelistMatches(text) == SeqToSet(SpansOfTable(BUSINESS_WHITELIST_PATTERNS, text, 1))
\* The spans of the structured-pattern matches in text, whitelisted or not.
PatternMatches(text) == SeqToSet(SpansOfTable(PII_REGEX_PATTERNS, text, 1))
SharedPosition(s1, s2, n) == \E i \in 0..n : s1[1] <= i /\ i < s1[2] /\ s2[1] <= i /\ i < s2[2]

\* C16: no redaction returned by detect_pii_regex overlaps a whitelist match,
\* fully or partly, whatever its PII type.
C16_NoRedactionOverlapsWhitelist ==
  Detected =>
    \A i \in 1..Len(pii.out) : \A ws \in WhitelistMatches(pii.text) :
      ~SharedPosition(<<pii.out[i].span_start, pii.out[i].span_end>>, ws, Len(pii.text))

\* A text in which a structured-pattern match reaches beyond the whitelist
\* match it overlaps has been scanned.
C16_Witness ==
  /\ Detected
  /\ \E m \in PatternMatches(pii.text) : \E ws \in WhitelistMatches(pii.text) :
       SharedPosition(m, ws, Len(pii.text)) /\ m[2] > ws[2]

(***************************************************************************)
(* Claims about the flags of canonicalize_text (SpecCanon).                *)
(***************************************************************************)
\* The kinds named quote*, reply_header* or forward_marker*, and the kinds
\* named signature*, disclaimer* or closing*.
QuoteLikeKinds == {"quote_standard", "reply_header_it", "reply_header_en", "reply_header_outlook", "forward_marker", "forward_marker_it"}
SignatureLikeKinds == {"signature_separator", "signature_underline", "disclaimer_confidential", "disclaimer_privacy", "disclaimer_environment", "closing_formal"}

\* The table indices of the kinds a flag setting disables.
DisabledBy(flags) ==
  {k \in 1..Len(QUOTE_PATTERNS) :
     \/ ~flags.remove_quotes /\ QUOTE_PATTERNS[k].type \in QuoteLikeKinds
     \/ ~flags.remove_signatures /\ QUOTE_PATTERNS[k].type \in SignatureLikeKinds}

\* C17: the two flags act independently: with remove_quotes false no pattern
\* of kind quote*, reply_header*, forward_marker* is run (no RemovedSection of
\* those kinds, text not changed by them) while the other group is applied as
\* with both flags true; the same for remove_signatures and the kinds
\* signature*, disclaimer*, closing*; with both false nothing is removed.
C17_FlagsIndependent ==
  \A i \in 1..Len(runs) :
    /\ SkipsOnly(runs[i], TableWithout(Normalized(runs[i].input), << >>, 1,
                                       DisabledBy(cflags) \cup runs[i].timeouts, TRUE, TRUE))
    /\ \A j \in 1..Len(runs[i].removed) :
         /\ ~cflags.remove_quotes => runs[i].removed[j].type \notin QuoteLikeKinds
         /\ ~cflags.remove_signatures => runs[i].removed[j].type \notin SignatureLikeKinds
    /\ (~cflags.remove_quotes /\ ~cflags.remove_signatures) => runs[i].removed = << >>

\* With remove_quotes false, a text holding a quoted line and a signature
\* separator was canonicalized: the separator was removed.
C17_Witness ==
  /\ ~cflags.remove_quotes /\ cflags.remove_signatures
  /\ Len(runs) >= 1
  /\ FindIter(QUOTE_PATTERNS[1].re, Normalized(runs[1].input), 0) # << >>
  /\ \E j \in 1..Len(runs[1].removed) : runs[1].removed[j].type = "signature_separator"

(***************************************************************************)
(* error_handling.py: classify_error, should_retry and a caller that       *)
(* re-invokes the chain while should_retry allows it.                      *)
(***************************************************************************)
\* keyword in error_msg
Contains(hay, needle) ==
  \E i \in 1..(Len(hay) - Len(needle) + 1) : SubSeq(hay, i, i + Len(needle) - 1) = needle

CriticalKeywords == {<<"m","e","m","o","r","y">>, <<"o","u","t"," ","o","f"," ","m","e","m","o","r","y">>, <<"k","i","l","l","e","d">>, <<"s","e","g","f","a","u","l","t">>}

\* classify_error; exception is [type, msg], str(exception) is msg.
ClassifyError(exception) ==
  IF \E keyword \in CriticalKeywords : Contains(LowerText(exception.msg), keyword)
  THEN "critical"
  ELSE IF Contains(LowerText(exception.msg), <<"p","i","i">>)
          \/ Contains(LowerText(exception.msg), <<"p","a","r","s","e">>)
  THEN "high"
  ELSE IF Contains(LowerText(exception.msg), <<"t","i","m","e","o","u","t">>)
          \/ Contains(LowerText(exception.msg), <<"c","a","n","o","n">>)
  THEN "medium"
  ELSE "low"

\* should_retry
ShouldRetry(exception, attempt, max_attempts) ==
  IF attempt >= max_attempts THEN FALSE
  ELSE IF ClassifyError(exception) = "critical" THEN FALSE
  ELSE IF Contains(LowerText(exception.msg), <<"v","a","l","i","d","a","t","i","o","n">>) THEN FALSE
  ELSE TRUE

\* Failures of the chain: the exception and the kind of failure it is.
\* MemoryError() is what the interpreter raises when an allocation fails;
\* the ValueError is the one of PIIRedaction.__post_init__.
Failures ==
  { [type |-> "MemoryError", msg |-> << >>, failure |-> "catastrophic"],
    [type |-> "MemoryError", msg |-> <<"O","u","t"," ","o","f"," ","m","e","m","o","r","y">>, failure |-> "catastrophic"],
    [type |-> "ValueError", msg |-> <<"I","n","v","a","l","i","d"," ","s","p","a","n",":"," ","s","t","a","r","t","=","5",","," ","e","n","d","=","2">>, failure |-> "validation"],
    [type |-> "Exception", msg |-> <<"V","a","l","i","d","a","t","i","o","n"," ","f","a","i","l","e","d",":"," ","i","n","v","a","l","i","d"," ","i","n","p","u","t">>, failure |-> "validation"],
    [type |-> "RegexTimeoutError", msg |-> <<"R","e","g","e","x"," ","m","a","t","c","h","i","n","g"," ","e","x","c","e","e","d","e","d"," ","1",".","0","s"," ","t","i","m","e","o","u","t">>, failure |-> "transient"],
    [type |-> "Exception", msg |-> <<"T","r","a","n","s","i","e","n","t"," ","e","r","r","o","r">>, failure |-> "transient"] }

\* The chain is invoked (attempt number retry.attempt) and fails with f.
RetryInvoke ==
  /\ retry.pc = "invoke"
  /\ \E f \in Failures :
       retry' = [retry EXCEPT !.pc = "failed", !.exception = f,
                              !.invocations = retry.invocations + 1]
  /\ UNCHANGED <<pii, batch, caches, orchVars, canonVars, rxVars, extVars>>

\* The caller asks should_retry and either increments attempt or stops.
RetryDecide ==
  /\ retry.pc = "failed"
  /\ retry' = [retry EXCEPT
        !.pc = IF ShouldRetry(retry.exception, retry.attempt, retry.max_attempts) THEN "invoke" ELSE "stopped",
        !.attempt = IF ShouldRetry(retry.exception, retry.attempt, retry.max_attempts) THEN retry.attempt + 1 ELSE retry.attempt,
        !.calls = Append(retry.calls, [exception |-> retry.exception, attempt |-> retry.attempt, answer |-> ShouldRetry(retry.exception, retry.attempt, retry.max_attempts)])]
  /\ UNCHANGED <<pii, batch, caches, orchVars, canonVars, rxVars, extVars>>

InitRetry ==
  /\ retry \in [pc : {"invoke"}, attempt : {1}, max_attempts : 1..MaxAttempts, exception : {<< >>}, invocations : {0}, calls : {<< >>}]
  /\ pii = << >> /\ batch = << >> /\ caches = << >>
  /\ OrchIdle
  /\ CanonIdle
  /\ RxIdle
  /\ ExtIdle

NextRetry == RetryInvoke \/ RetryDecide

SpecRetry == InitRetry /\ [][NextRetry]_vars

\* C18: should_retry is False whenever attempt >= max_attempts, False at
\* every attempt for every catastrophic and every validation failure whatever
\* the wording of its message, True for every other failure while attempt <
\* max_attempts; so the caller invokes the chain at most max_attempts times.
C18_RetryPolicy ==
  /\ \A i \in 1..Len(retry.calls) :
       retry.calls[i].answer =
         (/\ retry.calls[i].attempt < retry.max_attempts
          /\ retry.calls[i].exception.failure = "transient")
  /\ retry.invocations <= retry.max_attempts

\* The part of the policy that rests on the attempt count alone: no retry at
\* attempt >= max_attempts, hence at most max_attempts invocations.
RetryLoopBounded ==
  /\ \A i \in 1..Len(retry.calls) :
       retry.calls[i].attempt >= retry.max_attempts => ~retry.calls[i].answer
  /\ retry.invocations <= retry.max_attempts

(***************************************************************************)
(* preprocessing.py: preprocess_email_batch.                               *)
(***************************************************************************)
BatchEmails == [message_id : {"<m1>", "<m2>"}, headers : HeaderSets, body_text : {StrBody(<<"x">>), StrBody(<<">", " ", "x">>), NoneBody}]
BatchEnvs == [cfgOk : BOOLEAN, nlpLoadOk : BOOLEAN, nlpOk : BOOLEAN, salt : {ConfigSalt}]

\* results.append(doc), next iteration
BatchAppend(doc) ==
  batch' = [batch EXCEPT !.results = Append(batch.results, doc), !.idx = batch.idx + 1]

\* An exception leaves preprocess_email_batch.
BatchRaise(exc) == batch' = [batch EXCEPT !.pc = "raised", !.raised = exc]

\* The except clause: results.append(_create_error_document(...)), whose
\* outcome is err; the call is not guarded.
BatchExcept(err) == IF err.raised = "" THEN BatchAppend(err.doc) ELSE BatchRaise(err.raised)

\* The try block for input_email, r being the outcome of preprocess_email.
BatchTry(input_email, r) ==
  IF r.raised = "" THEN BatchAppend(r.doc)
  ELSE BatchExcept(CreateErrorDocument(input_email, batch.env, r.raised))

\* One iteration of the loop over input_emails.
BatchItem ==
  /\ batch.pc = "loop" /\ batch.idx < Len(batch.input_emails)
  /\ \E canon \in CanonOutcomes(batch.input_emails[batch.idx + 1]) :
       BatchTry(batch.input_emails[batch.idx + 1],
                PreprocessEmail(batch.input_emails[batch.idx + 1], batch.env, canon))
  /\ UNCHANGED <<pii, retry, caches, orchVars, canonVars, rxVars, extVars>>

\* The loop is over: return results.
BatchReturn ==
  /\ batch.pc = "loop" /\ batch.idx = Len(batch.input_emails)
  /\ batch' = [batch EXCEPT !.pc = "returned"]
  /\ UNCHANGED <<pii, retry, caches, orchVars, canonVars, rxVars, extVars>>

InitBatch ==
  /\ batch \in [input_emails : SeqsUpTo(BatchEmails, MaxBatch), env : BatchEnvs, idx : {0}, results : {<< >>}, pc : {"loop"}, raised : {""}]
  /\ pii = << >> /\ retry = << >> /\ caches = << >>
  /\ OrchIdle
  /\ CanonIdle
  /\ RxIdle
  /\ ExtIdle

NextBatch == BatchItem \/ BatchReturn

SpecBatch == InitBatch /\ [][NextBatch]_vars

\* C19: preprocess_email_batch returns exactly one document per input, the
\* i-th result belonging to the i-th input; a failure while processing item i
\* yields an error document at position i and does not stop the batch.
C19_BatchOneDocumentPerInput ==
  /\ batch.pc # "raised"
  /\ \A i \in 1..Len(batch.results) :
       batch.results[i].message_id = batch.input_emails[i].message_id
  /\ batch.pc = "returned" => Len(batch.results) = Len(batch.input_emails)

(***************************************************************************)
(* config.py, pii_detection.py: the functools.lru_cache(maxsize=1)         *)
(* accessors called from several threads.  A call looks the key up, on a   *)
(* miss runs the wrapped function without holding any lock, then stores    *)
(* the result unless another call has stored one meanwhile, and returns    *)
(* the result it computed.                                                 *)
(***************************************************************************)
Accessors == {"get_config", "get_pii_detector", "_get_nlp_model"}
Threads == 1..MaxThreads
\* No instance (an empty cache, a thread that has not built or got one).
None == 0

\* Thread t enters the wrapper: cache lookup.
CacheLookup(t) ==
  /\ caches.thr[t].pc = "call"
  /\ caches' = [caches EXCEPT !.thr[t] =
        IF caches.cache[caches.thr[t].f] # None
        THEN [caches.thr[t] EXCEPT !.pc = "done", !.got = caches.cache[caches.thr[t].f]]
        ELSE [caches.thr[t] EXCEPT !.pc = "body"]]
  /\ UNCHANGED <<pii, retry, batch, orchVars, canonVars, rxVars, extVars>>

\* The wrapped function runs in thread t and builds an instance; instances
\* of an accessor are numbered in the order they are built.
CacheBody(t) ==
  /\ caches.thr[t].pc = "body"
  /\ caches' = [caches EXCEPT !.built[caches.thr[t].f] = caches.built[caches.thr[t].f] + 1,
                              !.thr[t] = [caches.thr[t] EXCEPT !.pc = "store", !.mine = caches.built[caches.thr[t].f] + 1]]
  /\ UNCHANGED <<pii, retry, batch, orchVars, canonVars, rxVars, extVars>>

\* Back in the wrapper: store the result if the key is still absent, return it.
CacheStore(t) ==
  /\ caches.thr[t].pc = "store"
  /\ caches' = [caches EXCEPT !.cache[caches.thr[t].f] = IF caches.cache[caches.thr[t].f] = None THEN caches.thr[t].mine ELSE caches.cache[caches.thr[t].f],
                              !.thr[t] = [caches.thr[t] EXCEPT !.pc = "done", !.got = caches.thr[t].mine]]
  /\ UNCHANGED <<pii, retry, batch, orchVars, canonVars, rxVars, extVars>>

\* Thread t, having returned, calls an accessor again.
CacheCallAgain(t) ==
  /\ caches.thr[t].pc = "done" /\ caches.thr[t].calls < MaxCalls
  /\ \E f \in Accessors :
       caches' = [caches EXCEPT !.thr[t] = [f |-> f, pc |-> "call", mine |-> None, got |-> None, calls |-> caches.thr[t].calls + 1]]
  /\ UNCHANGED <<pii, retry, batch, orchVars, canonVars, rxVars, extVars>>

InitCaches ==
  /\ caches \in [cache : {[f \in Accessors |-> None]}, built : {[f \in Accessors |-> 0]}, thr : [Threads -> [f : Accessors, pc : {"call"}, mine : {None}, got : {None}, calls : {1}]]]
  /\ pii = << >> /\ retry = << >> /\ batch = << >>
  /\ OrchIdle
  /\ CanonIdle
  /\ RxIdle
  /\ ExtIdle

NextCaches == \E t \in Threads : CacheLookup(t) \/ CacheBody(t) \/ CacheStore(t) \/ CacheCallAgain(t)

SpecCaches == InitCaches /\ [][NextCaches]_vars

\* C20: under any interleaving of concurrent first calls each shared
\* instance is initialized at most once: the initializer body runs a single
\* time and every caller receives the same instance.
C20_InitializedAtMostOnce ==
  /\ \A f \in Accessors : caches.built[f] <= 1
  /\ \A t, u \in Threads :
       (caches.thr[t].pc = "done" /\ caches.thr[u].pc = "done" /\ caches.thr[t].f = caches.thr[u].f)
         => caches.thr[t].got = caches.thr[u].got

\* What the cache does guarantee: once an instance is stored it is never
\* replaced, and a call that starts after that returns the stored instance.
CacheNeverReplaced ==
  [][\A f \in Accessors : caches.cache[f] # None => caches'.cache[f] = caches.cache[f]]_vars

(***************************************************************************)
(* C21: the salt is never defaulted                                        *)
(***************************************************************************)
\* The salt a redaction's hash was computed with: HashPii appends it to the
\* redacted text.
SaltOf(redaction) ==
  LET h == redaction.original_hash.sha256_16 IN
  IF Len(h) < Len(ConfigSalt) THEN << >>
  ELSE SubSeq(h, Len(h) - Len(ConfigSalt) + 1, Len(h))

FullRan ==
  /\ attempted # << >>
  /\ env.cfgOk /\ env.nlpLoadOk
  /\ ~(errors # << >> /\ errors[1].tier = "Full" /\ errors[1].exc = "MemoryError")

\* C22: preprocess_email returns an EmailDocument carrying the input's
\* message_id for every input: every failing step is replaced by its local
\* fallback and the document is still built and returned.
C22_FullAlwaysReturnsDocument ==
  FullRan => /\ ~Raised("Full")
             /\ returned_by = "Full"
             /\ result # NoDoc
             /\ result.message_id = input.message_id

(***************************************************************************)
(* models.py: construction of the audit records                            *)
(***************************************************************************)
\* A preview of n characters whose characters tell their position.
PreviewOf(n) == [i \in 1..n |-> IF i <= PreviewLen THEN "A" ELSE "B"]

RecordSpans == -1..2
RecordConfidences == {-10, 0, 95, 100, 150}
RecordMethods == {"regex", "ner", "hybrid", "manual"}
RecordPreviews == {PreviewOf(n) : n \in {0, 12, PreviewLen - 1, PreviewLen, PreviewLen + 1, 2 * PreviewLen}}

\* RemovedSection(type="quote", ...): dataclass __init__, then __post_init__.
ConstructRemovedSection ==
  /\ models.pc = "call" /\ models.cls = "RemovedSection"
  /\ models' = [models EXCEPT !.pc = "done",
                  !.out = RemovedSection("quote", models.span_start, models.span_end, models.content_preview, models.confidence)]
  /\ UNCHANGED <<subj, dogs, conf, orchVars, canonVars, rxVars, utilVars>>

\* PIIRedaction(type="EMAIL", ...): dataclass __init__, then __post_init__.
ConstructPIIRedaction ==
  /\ models.pc = "call" /\ models.cls = "PIIRedaction"
  /\ models' = [models EXCEPT !.pc = "done",
                  !.out = PIIRedaction("EMAIL", << >>, PiiEmailToken, models.span_start, models.span_end, models.confidence, models.detection_method)]
  /\ UNCHANGED <<subj, dogs, conf, orchVars, canonVars, rxVars, utilVars>>

InitModels ==
  /\ models \in [pc : {"call"}, cls : {"RemovedSection", "PIIRedaction"}, span_start : RecordSpans, span_end : RecordSpans, confidence : RecordConfidences, detection_method : RecordMethods, content_preview : RecordPreviews, out : {NoDoc}]
  /\ subj = << >> /\ dogs = << >> /\ conf = << >>
  /\ OrchIdle
  /\ CanonIdle
  /\ RxIdle
  /\ UtilIdle

NextModels == ConstructRemovedSection \/ ConstructPIIRedaction

SpecModels == InitModels /\ [][NextModels]_vars

\* The arguments the claim says must be rejected.
RejectedArguments ==
  \/ models.span_start < 0
  \/ models.span_end < models.span_start
  \/ models.confidence < 0 \/ models.confidence > 100
  \/ (models.cls = "PIIRedaction" /\ models.detection_method \notin {"regex", "ner", "hybrid"})

\* C23: construction of a RemovedSection or PIIRedaction is validated: a
\* negative start, an end before the start, a confidence outside [0, 1] or
\* (PIIRedaction) a detection method outside the three allowed ones fails
\* with a validation error and yields no record; a longer preview is cut to
\* its first 100 characters; so every record has 0 <= start <= end,
\* 0 <= confidence <= 1 and a preview of at most 100 characters.
C23_ConstructionValidated ==
  models.pc = "done" =>
    IF RejectedArguments THEN models.out = [error |-> "ValueError"]
    ELSE /\ "error" \notin DOMAIN models.out
         /\ models.out.span_start = models.span_start
         /\ models.out.span_end = models.span_end
         /\ models.out.confidence = models.confidence
         /\ 0 <= models.out.span_start /\ models.out.span_start <= models.out.span_end
         /\ 0 <= models.out.confidence /\ models.out.confidence <= 100
         /\ models.cls = "PIIRedaction" => models.out.detection_method = models.detection_method
         /\ models.cls = "RemovedSection" =>
              /\ Len(models.out.content_preview) <= 100
              /\ Len(models.out.content_preview) = Min(Len(models.content_preview), 100)
              /\ \A i \in 1..Len(models.out.content_preview) :
                   models.out.content_preview[i] = models.content_preview[i]

\* A RemovedSection built from valid arguments and a preview of more than
\* 100 characters.
C23_Witness ==
  /\ models.pc = "done" /\ models.cls = "RemovedSection" /\ ~RejectedArguments
  /\ Len(models.content_preview) > 100
  /\ Len(models.out.content_preview) = 100

(***************************************************************************)
(* canonicalization.py: canonicalize_subject                               *)
(***************************************************************************)
MaxSubjFrags == 3

\* r"^(?:re|fw|fwd|r|i):\s*" with re.IGNORECASE, without the anchor: "^"
\* (no re.MULTILINE) only lets the pattern match at offset 0.
SUBJECT_PREFIX ==
  <<Alt(<<LitI(<<"r","e">>), LitI(<<"f","w">>), LitI(<<"f","w","d">>), LitI(<<"r">>), LitI(<<"i">>)>>), Cls({":"}, 1, 1), Cls(StripWS, 0, Inf)>>

\* re.sub(r"^(?:re|fw|fwd|r|i):\s*", "", subject, flags=re.IGNORECASE)
SubPrefix(subject) ==
  IF MatchItems(SUBJECT_PREFIX, 1, subject, 0) = -1 THEN subject
  ELSE SubSeq(subject, MatchItems(SUBJECT_PREFIX, 1, subject, 0) + 1, Len(subject))

SubjectFrags == {<<"R","E",":">>, <<"f","w",":">>, <<"F","w","d",":">>, <<"r",":">>, <<"I",":">>, <<" ">>, <<NBSP>>, <<"X">>}
SubjectTexts == {Flatten(q) : q \in SeqsUpTo(SubjectFrags, MaxSubjFrags)}

\* canonicalize_subject is entered: "if not subject: return ''", then NFC.
SubjEnter ==
  /\ subj.pc = "call"
  /\ subj' = IF subj.input = << >>
             THEN [subj EXCEPT !.pc = "done", !.out = << >>, !.calls = Append(@, [input |-> subj.input, out |-> << >>])]
             ELSE [subj EXCEPT !.pc = "loop", !.subject = NormalizeNFC(subj.input)]
  /\ UNCHANGED <<models, dogs, conf, orchVars, canonVars, rxVars, utilVars>>

\* One iteration of "while True": break when re.sub changed nothing.
SubjStrip ==
  /\ subj.pc = "loop"
  /\ subj' = IF SubPrefix(subj.subject) = subj.subject
             THEN [subj EXCEPT !.pc = "lower"]
             ELSE [subj EXCEPT !.subject = SubPrefix(subj.subject), !.iterations = @ + 1]
  /\ UNCHANGED <<models, dogs, conf, orchVars, canonVars, rxVars, utilVars>>

\* lower(), _normalize_unicode_whitespace, strip(), return.
SubjReturn ==
  /\ subj.pc = "lower"
  /\ subj' = [subj EXCEPT !.pc = "done",
                !.out = Strip(NormalizeUnicodeWhitespace(LowerText(subj.subject))),
                !.calls = Append(@, [input |-> subj.input, out |-> Strip(NormalizeUnicodeWhitespace(LowerText(subj.subject)))])]
  /\ UNCHANGED <<models, dogs, conf, orchVars, canonVars, rxVars, utilVars>>

\* The caller canonicalizes the returned subject once more.
SubjAgain ==
  /\ subj.pc = "done" /\ Len(subj.calls) = 1
  /\ subj' = [subj EXCEPT !.pc = "call", !.input = subj.out, !.subject = << >>, !.iterations = 0]
  /\ UNCHANGED <<models, dogs, conf, orchVars, canonVars, rxVars, utilVars>>

InitSubject ==
  /\ subj \in [pc : {"call"}, input : SubjectTexts, subject : {<< >>}, iterations : {0}, out : {<< >>}, calls : {<< >>}]
  /\ models = << >> /\ dogs = << >> /\ conf = << >>
  /\ OrchIdle
  /\ CanonIdle
  /\ RxIdle
  /\ UtilIdle

NextSubject == SubjEnter \/ SubjStrip \/ SubjReturn \/ SubjAgain

SpecSubject == InitSubject /\ [][NextSubject]_vars

ReplyPrefixes == {<<"r","e",":">>, <<"f","w",":">>, <<"f","w","d",":">>, <<"r",":">>, <<"i",":">>}

\* s begins with a reply/forward prefix, in any letter case.
BeginsWithPrefix(s) ==
  \E p \in ReplyPrefixes : Len(s) >= Len(p) /\ LowerText(SubSeq(s, 1, Len(p))) = p

\* C24: the prefix-stripping loop ends and the subject returned by
\* canonicalize_subject begins with no reply/forward prefix, also for an
\* input with leading whitespace or stacked prefixes; so canonicalizing the
\* returned subject again returns it unchanged.
C24_SubjectHasNoPrefix ==
  /\ subj.iterations <= Len(subj.input)
  /\ \A i \in 1..Len(subj.calls) : ~BeginsWithPrefix(subj.calls[i].out)
  /\ Len(subj.calls) = 2 => subj.calls[2].out = subj.calls[1].out

\* The loop ends: every iteration that goes on shortens the subject.
SubjectLoopShortens ==
  subj.pc = "loop" => Len(subj.subject) + 2 * subj.iterations <= Len(subj.input)

(***************************************************************************)
(* canonicalization.py: what the whitespace cleanup guarantees             *)
(***************************************************************************)
MaxCleanFrags == 3

CleanFrags == {<<"a">>, <<" ">>, <<"\n">>, <<"\r">>, <<NBSP>>, <<"a"," ">>, <<"a","\n">>, <<"\n","\n">>, <<">">>}
CleanTexts == {Flatten(q) : q \in SeqsUpTo(CleanFrags, MaxCleanFrags)}

\* _cleanup_excessive_whitespace(text) called on its own, as the tests do.
CleanupDirect ==
  /\ runs = << >>
  /\ runs' = <<[kind |-> "cleanup", input |-> cx, text |-> CleanupExcessiveWhitespace(cx), removed |-> << >>, timeouts |-> {}, pii |-> << >>]>>
  /\ UNCHANGED <<cx, cflags, orchVars, rxVars, utilVars, extVars>>

InitCleanup ==
  /\ cx \in CleanTexts
  /\ cflags \in [remove_quotes : BOOLEAN, remove_signatures : BOOLEAN]
  /\ runs = << >>
  /\ OrchIdle
  /\ RxIdle
  /\ UtilIdle
  /\ ExtIdle

NextCleanup == CanonFirst \/ CleanupDirect

SpecCleanup == InitCleanup /\ [][NextCleanup]_vars

HasCarriageReturn(t) == \E i \in 1..Len(t) : t[i] = "\r"
\* t has n consecutive characters c.
HasRunOf(t, c, n) == \E i \in 1..Len(t) : i + n - 1 <= Len(t) /\ \A j \in i..(i + n - 1) : t[j] = c
LineEndsInWhitespace(t) == \E i \in 1..Len(t) : t[i] \in (StripWS \ {"\n"}) /\ (i = Len(t) \/ t[i + 1] = "\n")
EdgeWhitespace(t) == t # << >> /\ (t[1] \in StripWS \/ t[Len(t)] \in StripWS)

\* No two spaces in a row, no three newlines in a row, no whitespace at the
\* end of a line or at either end of the text.
WhitespaceClean(t) ==
  /\ ~HasRunOf(t, " ", 2)
  /\ ~HasRunOf(t, "\n", 3)
  /\ ~LineEndsInWhitespace(t)
  /\ ~EdgeWhitespace(t)

\* C25 as stated: every text returned by canonicalize_text and every text
\* returned by _cleanup_excessive_whitespace has no carriage return, no two
\* spaces in a row, no three newlines in a row, no line ending in whitespace
\* and no whitespace at either end.
C25_CleanAndNoCarriageReturn ==
  \A i \in 1..Len(runs) : ~HasCarriageReturn(runs[i].text) /\ WhitespaceClean(runs[i].text)

\* C25, amended: every text returned by canonicalize_text has the five
\* properties, whatever was removed, skipped or timed out; a text returned
\* by _cleanup_excessive_whitespace called on its own has the last four, and
\* has a carriage return only where its input had one inside a line.
C25_CanonicalWhitespace ==
  \A i \in 1..Len(runs) :
    /\ WhitespaceClean(runs[i].text)
    /\ runs[i].kind = "first" => ~HasCarriageReturn(runs[i].text)
    /\ runs[i].kind = "cleanup" => (HasCarriageReturn(runs[i].text) => HasCarriageReturn(runs[i].input))

\* canonicalize_text removed a quote from a text with a carriage return and
\* with whitespace to clean up.
C25_Witness ==
  /\ Len(runs) = 1 /\ runs[1].kind = "first"
  /\ HasCarriageReturn(runs[1].input) /\ ~WhitespaceClean(runs[1].input)
  /\ runs[1].removed # << >>

\* C26: merge_redactions discards a candidate only in favour of one it
\* keeps: every input candidate that is absent from the result overlaps at
\* least one candidate of the result.
C26_DiscardedOverlapsKept ==
  Merged =>
    \A i \in 1..Len(pii.redactions) :
      pii.redactions[i] \notin SeqToSet(pii.out) =>
        \E j \in 1..Len(pii.out) : SharePosition(pii.redactions[i], pii.out[j])

(***************************************************************************)
(* The tiers on bodies whose pattern detections overlap                    *)
(***************************************************************************)
MaxTierFrags == 2

\* An 11-digit number beginning with 0 is a PHONE_IT and a PIVA match.
TierFrags == {<<"0","1","2","3","4","5","6","7","8","9","0">>, <<"a","@","b",".","i","t">>, <<"M","a","r","i","a">>, <<" ">>}
TierBodies == {StrBody(Flatten(q)) : q \in SeqsUpTo(TierFrags, MaxTierFrags)}

InitTiers ==
  /\ input \in [message_id : {"<m1>"}, headers : HeaderSets, body_text : TierBodies]
  /\ env \in [cfgOk : BOOLEAN, nlpLoadOk : BOOLEAN, nlpOk : BOOLEAN, salt : {ConfigSalt}]
  /\ pc = "Full"
  /\ attempted = << >>
  /\ errors = << >>
  /\ result = NoDoc
  /\ returned_by = ""
  /\ nlp_calls = [t \in Tiers |-> 0]
  /\ full_locals = NoDoc
  /\ CanonIdle
  /\ RxIdle
  /\ UtilIdle
  /\ ExtIdle

SpecTiers == InitTiers /\ [][Next]_vars

\* No two redactions of rs share a character.
Disjoint(rs) ==
  \A i, j \in 1..Len(rs) :
    i # j => (rs[i].span_end <= rs[j].span_start \/ rs[j].span_end <= rs[i].span_start)

\* C27: in every tier that redacts the body (Full, PatternOnly, NoCanonical)
\* the list handed to apply_redactions is pairwise non-overlapping, so the
\* body the tier produces is its input body with exactly the listed spans
\* replaced by their placeholders.
C27_RedactionListsDisjoint ==
  /\ (pc = "returned" /\ returned_by \in {"PatternOnly", "NoCanonical"}) =>
       /\ Disjoint(result.pii_entities)
       /\ result.body_text_canonical = Redacted(BodyOr(input.body_text, << >>).chars, SeqToSet(result.pii_entities), 0)
  /\ (full_locals # NoDoc /\ full_locals.canonical_body.kind = "str") =>
       /\ Disjoint(full_locals.pii_redactions)
       /\ full_locals.redacted_body.chars = Redacted(full_locals.canonical_body.chars, SeqToSet(full_locals.pii_redactions), 0)

\* The part of C27 that holds: preprocess_email hands apply_redactions the
\* output of merge_redactions.
FullRedactionListDisjoint ==
  (full_locals # NoDoc /\ full_locals.canonical_body.kind = "str") =>
    /\ Disjoint(full_locals.pii_redactions)
    /\ full_locals.redacted_body.chars = Redacted(full_locals.canonical_body.chars, SeqToSet(full_locals.pii_redactions), 0)

\* redact_headers_pii raises inside the tier (the entity model fails on an
\* address or subject header).
HeaderRedactionFails == RedactHeadersPii(input.headers, env.salt, env.nlpOk).raised # ""

\* The document carries an address or subject header in which the patterns
\* still find PII.
UnredactedHeader(doc) ==
  \E i \in 1..Len(doc.headers_canonical) :
    /\ doc.headers_canonical[i].key \in RedactedHeaderKeys
    /\ DetectPiiRegex(doc.headers_canonical[i].value, env.salt) # << >>

\* C28: only the Minimal tier and the error document may carry unredacted
\* content: a document returned by the Full, PatternOnly or NoCanonical tier
\* has had detection run to completion on its body and on its address and
\* subject headers; a detection or header-redaction error inside the tier
\* never ends in the tier returning unredacted body or headers as a success.
C28_OnlyMinimalUnredacted ==
  (pc = "returned" /\ returned_by \in {"Full", "PatternOnly", "NoCanonical"}) =>
    /\ BodyOr(input.body_text, << >>).kind = "str"
    /\ ~HeaderRedactionFails
    /\ ~UnredactedHeader(result)

(***************************************************************************)
(* canonicalization.py: safe_regex_finditer, several calls and their       *)
(* watchdogs                                                               *)
(***************************************************************************)
MaxDogs == 2
MaxDogMatches == 2

\* The calls of safe_regex_finditer: made one after the other or by
\* concurrent threads, in any interleaving.
Dogs == 1..MaxDogs

\* A watchdog flag shared by every call (one module-level Event).
SharedFlag(c) == 1

\* "timed_out = threading.Event()" is a local of the call: call c reads and
\* its handler sets the Event created by call c.
FlagOf(c) == c

\* result = [], timed_out = Event(), timer = Timer(...), timer.start()
DogStart(c) ==
  /\ dogs.pc[c] = "idle"
  /\ dogs' = [dogs EXCEPT !.pc[c] = "loop", !.flag[FlagOf(c)] = FALSE, !.timer[c] = "running"]
  /\ UNCHANGED <<models, subj, conf, orchVars, canonVars, rxVars, utilVars>>

\* pattern.finditer yields the next match, or is exhausted: return result.
DogNext(c) ==
  /\ dogs.pc[c] = "loop"
  /\ dogs' = IF dogs.left[c] > 0
             THEN [dogs EXCEPT !.pc[c] = "check", !.left[c] = @ - 1]
             ELSE [dogs EXCEPT !.pc[c] = "finally", !.out[c] = "returned"]
  /\ UNCHANGED <<models, subj, conf, orchVars, canonVars, rxVars, utilVars>>

\* if timed_out.is_set(): raise RegexTimeoutError; else result.append(match)
DogCheck(c) ==
  /\ dogs.pc[c] = "check"
  /\ dogs' = IF dogs.flag[FlagOf(c)]
             THEN [dogs EXCEPT !.pc[c] = "finally", !.out[c] = "raised"]
             ELSE [dogs EXCEPT !.pc[c] = "loop"]
  /\ UNCHANGED <<models, subj, conf, orchVars, canonVars, rxVars, utilVars>>

\* finally: timer.cancel().  Cancelling stops a timer that is still
\* waiting; a timer past its check of "finished" runs its handler anyway.
DogFinally(c) ==
  /\ dogs.pc[c] = "finally"
  /\ dogs' = [dogs EXCEPT !.pc[c] = "done",
                !.timer[c] = IF @ = "running" THEN "cancelled" ELSE @]
  /\ UNCHANGED <<models, subj, conf, orchVars, canonVars, rxVars, utilVars>>

\* threading.Timer.run: the interval elapsed and "finished" is not set.
DogTimerExpire(c) ==
  /\ dogs.timer[c] = "running"
  /\ dogs' = [dogs EXCEPT !.timer[c] = "firing"]
  /\ UNCHANGED <<models, subj, conf, orchVars, canonVars, rxVars, utilVars>>

\* timeout_handler: timed_out.set(), possibly after the call has ended.
DogTimerFire(c) ==
  /\ dogs.timer[c] = "firing"
  /\ dogs' = [dogs EXCEPT !.timer[c] = "fired", !.flag[FlagOf(c)] = TRUE,
                !.late[c] = (dogs.pc[c] = "done")]
  /\ UNCHANGED <<models, subj, conf, orchVars, canonVars, rxVars, utilVars>>

InitDogs ==
  /\ dogs \in [pc : {[c \in Dogs |-> "idle"]}, timer : {[c \in Dogs |-> "new"]}, flag : {[c \in Dogs |-> FALSE]}, left : [Dogs -> 0..MaxDogMatches], out : {[c \in Dogs |-> ""]}, late : {[c \in Dogs |-> FALSE]}]
  /\ models = << >> /\ subj = << >> /\ conf = << >>
  /\ OrchIdle
  /\ CanonIdle
  /\ RxIdle
  /\ UtilIdle

NextDogs == \E c \in Dogs : DogStart(c) \/ DogNext(c) \/ DogCheck(c) \/ DogFinally(c) \/ DogTimerExpire(c) \/ DogTimerFire(c)

SpecDogs == InitDogs /\ [][NextDogs]_vars

\* C29: the watchdog is private to one call of safe_regex_finditer: on every
\* exit path the timer is cancelled, and a watchdog that fires, even after
\* its call has ended, sets only the flag of its own call, so a call raises
\* RegexTimeoutError only when its own watchdog fired, whatever the earlier,
\* later or concurrent calls do.
C29_WatchdogPrivate ==
  \A c \in Dogs :
    /\ dogs.pc[c] = "done" => dogs.timer[c] \in {"cancelled", "firing", "fired"}
    /\ dogs.flag[c] => dogs.timer[c] = "fired"
    /\ dogs.out[c] = "raised" => (dogs.timer[c] = "fired" /\ ~dogs.late[c])

\* The watchdog of one call fired after that call had returned, and another
\* call that was still matching then returned all its matches.
C29_Witness ==
  \E c, d \in Dogs :
    /\ c # d
    /\ dogs.pc[c] = "done" /\ dogs.out[c] = "returned" /\ dogs.late[c]
    /\ dogs.pc[d] = "done" /\ dogs.out[d] = "returned" /\ dogs.timer[d] = "cancelled"

(***************************************************************************)
(* config.py / pii_detection.py: the cached configuration and detector    *)
(***************************************************************************)
\* Python's None: no cached instance, PREPROCESSING_PII_SALT unset.
Absent == "None"

\* The salts the environment can configure.
ConfSalts == {"salt-A", "salt-B", "salt-C"}

\* The salt of the configuration get_config() returns in this state: the
\* cached instance, or a new PreprocessingConfig read from the environment.
ConfigSaltNow == IF conf.config # Absent THEN conf.config ELSE conf.env

\* get_config(): lru_cache hit, or PreprocessingConfig() from the
\* environment; without a salt it raises and nothing is cached.
ConfGetConfig ==
  /\ conf' = [conf EXCEPT !.config = ConfigSaltNow, !.op = "get_config",
                !.raised = (ConfigSaltNow = Absent)]
  /\ UNCHANGED <<models, subj, dogs, orchVars, canonVars, rxVars, utilVars>>

\* get_pii_detector(): lru_cache hit, or PIIDetector(salt=get_config().pii_salt),
\* whose __init__ calls get_config() again and keeps the salt.
ConfGetPiiDetector ==
  /\ conf' = IF conf.detector # Absent
             THEN [conf EXCEPT !.served = conf.detector, !.op = "get_pii_detector", !.raised = FALSE]
             ELSE [conf EXCEPT !.config = ConfigSaltNow, !.detector = ConfigSaltNow,
                     !.served = ConfigSaltNow, !.op = "get_pii_detector",
                     !.raised = (ConfigSaltNow = Absent)]
  /\ UNCHANGED <<models, subj, dogs, orchVars, canonVars, rxVars, utilVars>>

\* reset_config_cache(): get_config.cache_clear(), nothing else.
ConfResetConfigCache ==
  /\ conf' = [conf EXCEPT !.config = Absent, !.op = "reset_config_cache", !.raised = FALSE]
  /\ UNCHANGED <<models, subj, dogs, orchVars, canonVars, rxVars, utilVars>>

\* The environment variable is set to another salt, or unset.
ConfChangeSalt ==
  /\ \E s \in (ConfSalts \cup {Absent}) \ {conf.env} :
       conf' = [conf EXCEPT !.env = s, !.op = "change_salt", !.raised = FALSE]
  /\ UNCHANGED <<models, subj, dogs, orchVars, canonVars, rxVars, utilVars>>

InitConf ==
  /\ conf \in [env : ConfSalts \cup {Absent}, config : {Absent}, detector : {Absent}, served : {Absent}, op : {""}, raised : {FALSE}]
  /\ models = << >> /\ subj = << >> /\ dogs = << >>
  /\ OrchIdle
  /\ CanonIdle
  /\ RxIdle
  /\ UtilIdle

NextConf == ConfGetConfig \/ ConfGetPiiDetector \/ ConfResetConfigCache \/ ConfChangeSalt

SpecConf == InitConf /\ [][NextConf]_vars

\* C30: the detector singleton never serves a stale salt: after any sequence
\* of get_config, get_pii_detector, reset_config_cache and salt changes, the
\* salt of the detector that get_pii_detector returns equals the salt of the
\* configuration that get_config returns at that moment.
C30_DetectorSaltCurrent ==
  (conf.op = "get_pii_detector" /\ ~conf.raised) => conf.served = ConfigSaltNow

====
